---- MODULE Spec2Model ----
(***************************************************************************)
(* A model of qm::array2d<Ty, Idx> (single_include/array2d.hpp): a         *)
(* row-major two-dimensional container that keeps rows_, cols_ and one     *)
(* std::vector<Ty> data_.                                                  *)
(*                                                                         *)
(* The container under observation is `m`.  Every public operation is one  *)
(* action; the action records the state before the call in `pre`, the      *)
(* call and its outcome in `op`, what the call returned in `ret`, and the  *)
(* sequence a constructor was given in `arg`.  `par` is the progress of a   *)
(* parallel fill: the blocks of elements not yet assigned and how often    *)
(* each element was assigned.                                              *)
(* The lifecycle specification Spec instantiates the container with the    *)
(* default index type (Idx = int, array2d.hpp:186) and runs every          *)
(* operation that can change the container, copy assignment and both       *)
(* moves included.  SpecShape runs the sizing constructors, resize,        *)
(* reserve, shrink_to_fit and at(); SpecTr runs the two transpositions on  *)
(* larger containers; SpecSize runs the size arithmetic of both index      *)
(* types on the edges of their ranges; SpecList runs the nested-list       *)
(* constructor, SpecCmp the comparisons, SpecSwap the swaps, SpecMove the  *)
(* moves, SpecFill fill and fill_parallel around the size at which         *)
(* fill_parallel turns parallel, SpecElems reset and the row operations,   *)
(* SpecView the row views, column copies and submatrix views, and SpecIter *)
(* the iterator arithmetic.                                                *)
(***************************************************************************)
EXTENDS Integers, Sequences, FiniteSets, TLC

VARIABLES m, pre, op, ret, ty, cs, arg, par

vars == <<m, pre, op, ret, ty, cs, arg, par>>

(***************************************************************************)
(* Bounds of the model.                                                    *)
(***************************************************************************)
\* largest row / column count of a container the lifecycle model builds
MaxDim == 2
\* largest row / column count in the transpose model
MaxTDim == 3

\* the blocks the elements of a parallel fill are handed out in
NChunks == 3

Min(a, b) == IF a < b THEN a ELSE b

(***************************************************************************)
(* Element types.  sizeof(Ty) decides the transpose block size; whether    *)
(* Ty is trivially copyable decides memcpy vs copy_n and whether copying   *)
(* or constructing an element can throw.  Element values are naturals,     *)
(* Ty{} is 0.                                                              *)
(***************************************************************************)
\* "uint8": unsigned char; "string": std::string (32 bytes); "line" and
\* "wide": class types of 64 and 128 bytes with user-provided constructors
ElemTypes == {"uint8", "string", "line", "wide"}

SizeofTy(t) ==
  CASE t = "uint8" -> 1
    [] t = "string" -> 32
    [] t = "line" -> 64
    [] t = "wide" -> 128

\* trivially copyable, trivially constructible and destructible, standard
\* layout: the byte-wise paths (memcpy, memset) are taken exactly for these
IsTriviallyCopyable(t) == t = "uint8"

DefaultVal == 0

(***************************************************************************)
(* Index types and the unsigned size arithmetic.                           *)
(*                                                                         *)
(* size_type is std::make_unsigned_t<Idx>.  For Idx = int the product      *)
(* static_cast<size_type>(rows) * static_cast<size_type>(cols) is a 32-bit *)
(* unsigned product, i.e. taken modulo 2^32.  For Idx = short both         *)
(* operands are unsigned short, which the usual arithmetic conversions     *)
(* promote to int: the product and the division of the check are exact     *)
(* int arithmetic and only the returned value is converted to the 16-bit   *)
(* size_type.                                                              *)
(*                                                                         *)
(* A 32-bit unsigned value is the pair <<hi, lo>> of its 16-bit halves,    *)
(* because the integers of TLC are signed 32-bit values.                   *)
(***************************************************************************)
IndexTypes == {"short", "int"}

IndexBits(idx) == IF idx = "short" THEN 16 ELSE 32

\* the largest value of index_type
IndexMax(idx) == IF idx = "short" THEN 2^15 - 1 ELSE (2^30 - 1) + 2^30

Half == 2^16

ToU32(x) == <<x \div Half, x % Half>>

\* the value of a pair whose upper half is below 2^15
SizeVal(p) == p[1] * Half + p[2]

\* the pair is below 2^31; a request for more elements than that is one
\* the allocator does not meet (std::bad_alloc)
Fits31(p) == p[1] < 2^15

\* a * b modulo 2^32, for 0 <= a, b < 2^31
UMul32(a, b) ==
  LET a1 == a \div Half
      a0 == a % Half
      b1 == b \div Half
      b0 == b % Half
      p0 == (a0 % 256) * b0
      p1 == (a0 \div 256) * b0
      L  == (p0 % Half) + (p1 % 256) * 256
      H  == (p0 \div Half) + (p1 \div 256) + (L \div Half)
      X  == ((a1 * b0) % Half) + ((a0 * b1) % Half)
  IN  <<(H + X) % Half, L % Half>>

\* bit k (0 = least significant) of a 32-bit pair
BitOf(p, k) == IF k >= 16 THEN (p[1] \div 2^(k - 16)) % 2 ELSE (p[2] \div 2^k) % 2

\* restoring long division of the pair p by d, 1 <= d < 2^31, most
\* significant bit first; the partial remainder stays below d
RECURSIVE DivBits(_, _, _, _, _)
DivBits(p, d, k, rem, q) ==
  IF k < 0 THEN q
  ELSE LET bit  == BitOf(p, k)
           take == rem >= d - rem - bit
           r2   == IF take THEN rem - (d - rem - bit) ELSE 2 * rem + bit
           qb   == IF take THEN 1 ELSE 0
           q2   == IF k >= 16 THEN <<(2 * q[1] + qb) % Half, q[2]>>
                              ELSE <<q[1], (2 * q[2] + qb) % Half>>
       IN  DivBits(p, d, k - 1, r2, q2)

\* p / d on 32-bit unsigned values; a dividend below 2^31 is divided
\* directly
UDiv32(p, d) ==
  IF Fits31(p) THEN ToU32(SizeVal(p) \div d) ELSE DivBits(p, d, 31, 0, <<0, 0>>)

\* validate_dimension with the comparison off by one: -1 is let through
validate_dimension_OffByOne(dim) == dim >= 0 - 1

\* validate_dimension: throws std::invalid_argument on a negative value
validate_dimension(dim) == dim >= 0

\* calculate_size(rows, cols) for rows, cols >= 0: either throws
\* std::overflow_error or returns the value converted to size_type
calculate_size(idx, rows, cols) ==
  IF idx = "short"
  THEN LET size == rows * cols
       IN  IF rows > 0 /\ cols > 0 /\ size \div rows # cols
           THEN [throws |-> TRUE, size |-> <<0, 0>>]
           ELSE [throws |-> FALSE, size |-> <<0, size % Half>>]
  ELSE LET size == UMul32(rows, cols)
       IN  IF rows > 0 /\ cols > 0 /\ UDiv32(size, rows) # ToU32(cols)
           THEN [throws |-> TRUE, size |-> <<0, 0>>]
           ELSE [throws |-> FALSE, size |-> size]

\* the element count array2d(rows, cols), reserve(rows, cols) and
\* resize(rows, cols) on a default-constructed container use for valid
\* dimensions of the index type idx
NoSize == [throws |-> FALSE, size |-> <<0, 0>>]

array2d_elems(idx, rows_a, cols_a) ==
  IF rows_a > 0 /\ cols_a > 0 THEN calculate_size(idx, rows_a, cols_a) ELSE NoSize

reserve_elems(idx, rows_a, cols_a) == calculate_size(idx, rows_a, cols_a)

resize_elems(idx, new_rows, new_cols) ==
  IF new_rows = 0 /\ new_cols = 0 THEN NoSize
  ELSE calculate_size(idx, new_rows, new_cols)

(***************************************************************************)
(* The container: rows_, cols_, data_ (a sequence, element k of the        *)
(* buffer is data[k+1]) and the capacity of data_.                         *)
(***************************************************************************)
\* index type of the lifecycle model: the default template argument
Idx == "int"

Container(rows, cols, data, cap) ==
  [rows |-> rows, cols |-> cols, data |-> data, cap |-> cap]

\* array2d(): rows_{}, cols_{}, empty data_
array2d_default == Container(0, 0, <<>>, 0)

Outcome(c, st) == [c |-> c, st |-> st]

\* n copies of v
Repeat(n, v) == [k \in 1..n |-> v]

\* what a call can be made to fail on: nothing, the next allocation
\* (std::bad_alloc), the construction of an element of a new buffer, the
\* copy of an element into another buffer; the last two only for element
\* types whose constructors can throw.  The outcome of a call is "ok", the
\* exception it left with ("invalid_argument", "overflow_error",
\* "out_of_range", "bad_alloc", or the element's own exception, told apart
\* by where it was thrown), or one of Stopped
Faults == {"none", "alloc", "build", "copy"}

\* the faults a call that copies no element can meet, and those a call
\* that builds none can meet
BuildFaults == Faults \ {"copy"}

CopyFaults == Faults \ {"build"}

ElemThrows(t, fault, point) == fault = point /\ ~IsTriviallyCopyable(t)

rows(c) == c.rows
cols(c) == c.cols
size(c) == Len(c.data)
empty(c) == Len(c.data) = 0
capacity(c) == c.cap
is_square(c) == c.rows = c.cols

\* calculate_offset(row, col); the operands stay far below 2^31 in every
\* container the model builds, so the unsigned arithmetic does not wrap
calculate_offset(c, row, col) == row * c.cols + col

\* operator[](row): the offset of the returned pointer from data_.data()
operator_index(c, row) == calculate_offset(c, row, 0)

\* array2d(rows, cols) with val = DefaultVal, array2d(rows, cols, val)
array2d_dims(t, rows_a, cols_a, val, fault) ==
  IF ~validate_dimension(rows_a) \/ ~validate_dimension(cols_a)
  THEN Outcome(array2d_default, "invalid_argument")
  ELSE IF rows_a > 0 /\ cols_a > 0
       THEN LET sz == calculate_size(Idx, rows_a, cols_a)
            IN  IF sz.throws THEN Outcome(array2d_default, "overflow_error")
                ELSE IF fault = "alloc" THEN Outcome(array2d_default, "bad_alloc")
                ELSE IF ElemThrows(t, fault, "build")
                     THEN Outcome(array2d_default, "element_ctor_threw")
                ELSE Outcome(Container(rows_a, cols_a,
                                       Repeat(SizeVal(sz.size), val),
                                       SizeVal(sz.size)), "ok")
       ELSE Outcome(Container(rows_a, cols_a, <<>>, 0), "ok")

\* the elements [off, off + n) lie inside the buffer
InBuf(c, off, n) == off >= 0 /\ off + n <= Len(c.data)

\* memcpy / copy_n of n elements from src at offset so to dst at offset do
CopyN(src, so, n, dst, do) ==
  [k \in 1..Len(dst) |->
     IF k - 1 >= do /\ k - 1 < do + n THEN src[so + (k - 1 - do) + 1] ELSE dst[k]]

\* the row loop of resize_impl writing each row at the old stride
RECURSIVE ResizeCopyRows_OldStride(_, _, _, _, _, _, _)
ResizeCopyRows_OldStride(old, old_cols, new_data, new_cols, copy_rows, copy_cols, i) ==
  IF i >= copy_rows THEN new_data
  ELSE LET old_offset == i * old_cols
           new_offset == i * old_cols
       IN  ResizeCopyRows_OldStride(old, old_cols,
                                    CopyN(old, old_offset, copy_cols, new_data, new_offset),
                                    new_cols, copy_rows, copy_cols, i + 1)

\* the row loop of resize_impl, from row i on
RECURSIVE ResizeCopyRows(_, _, _, _, _, _, _)
ResizeCopyRows(old, old_cols, new_data, new_cols, copy_rows, copy_cols, i) ==
  IF i >= copy_rows THEN new_data
  ELSE LET old_offset == i * old_cols
           new_offset == i * new_cols
       IN  ResizeCopyRows(old, old_cols,
                          CopyN(old, old_offset, copy_cols, new_data, new_offset),
                          new_cols, copy_rows, copy_cols, i + 1)

\* resize_impl storing rows_ and cols_ before the new buffer is built
resize_impl_EarlyCommit(t, c, new_rows, new_cols, has_fill, fill_value, fault) ==
  IF ~validate_dimension(new_rows) \/ ~validate_dimension(new_cols)
  THEN Outcome(c, "invalid_argument")
  ELSE IF new_rows = c.rows /\ new_cols = c.cols THEN Outcome(c, "ok")
  ELSE LET sz  == calculate_size(Idx, new_rows, new_cols)
           set == [c EXCEPT !.rows = new_rows, !.cols = new_cols]
       IN  IF sz.throws THEN Outcome(c, "overflow_error")
           ELSE IF sz.size = <<0, 0>>
                THEN Outcome(Container(new_rows, new_cols, <<>>, c.cap), "ok")
           ELSE IF fault = "alloc" \/ ~Fits31(sz.size) THEN Outcome(set, "bad_alloc")
           ELSE IF ElemThrows(t, fault, "build") THEN Outcome(set, "element_ctor_threw")
           ELSE LET new_size == SizeVal(sz.size)
                    new_data == Repeat(new_size,
                                       IF has_fill THEN fill_value ELSE DefaultVal)
                    copying  == c.rows > 0 /\ c.cols > 0
                    copied   == IF copying
                                THEN ResizeCopyRows(c.data, c.cols, new_data, new_cols,
                                                    Min(c.rows, new_rows),
                                                    Min(c.cols, new_cols), 0)
                                ELSE new_data
                    inside   == \A i \in 0..(Min(c.rows, new_rows) - 1) :
                                  InBuf(c, i * c.cols, Min(c.cols, new_cols))
                IN  IF copying /\ ElemThrows(t, fault, "copy") /\ InBuf(c, 0, 1)
                    THEN Outcome(set, "element_copy_threw")
                    ELSE IF copying /\ ~inside THEN Outcome(c, "undefined")
                    ELSE Outcome(Container(new_rows, new_cols, copied, new_size), "ok")

\* resize_impl without data_.clear() on the way to an empty shape
resize_impl_NoClear(t, c, new_rows, new_cols, has_fill, fill_value, fault) ==
  IF ~validate_dimension(new_rows) \/ ~validate_dimension(new_cols)
  THEN Outcome(c, "invalid_argument")
  ELSE IF new_rows = c.rows /\ new_cols = c.cols THEN Outcome(c, "ok")
  ELSE LET sz == calculate_size(Idx, new_rows, new_cols)
       IN  IF sz.throws THEN Outcome(c, "overflow_error")
           ELSE IF sz.size = <<0, 0>>
                THEN Outcome(Container(new_rows, new_cols, c.data, c.cap), "ok")
           ELSE IF fault = "alloc" \/ ~Fits31(sz.size) THEN Outcome(c, "bad_alloc")
           ELSE IF ElemThrows(t, fault, "build") THEN Outcome(c, "element_ctor_threw")
           ELSE LET new_size == SizeVal(sz.size)
                    new_data == Repeat(new_size,
                                       IF has_fill THEN fill_value ELSE DefaultVal)
                    copying  == c.rows > 0 /\ c.cols > 0
                    copied   == IF copying
                                THEN ResizeCopyRows(c.data, c.cols, new_data, new_cols,
                                                    Min(c.rows, new_rows),
                                                    Min(c.cols, new_cols), 0)
                                ELSE new_data
                    inside   == \A i \in 0..(Min(c.rows, new_rows) - 1) :
                                  InBuf(c, i * c.cols, Min(c.cols, new_cols))
                IN  IF copying /\ ElemThrows(t, fault, "copy") /\ InBuf(c, 0, 1)
                    THEN Outcome(c, "element_copy_threw")
                    ELSE IF copying /\ ~inside THEN Outcome(c, "undefined")
                    ELSE Outcome(Container(new_rows, new_cols, copied, new_size), "ok")

\* resize_impl that rebuilds the elements also when the shape stays
resize_impl_RefillsSameShape(t, c, new_rows, new_cols, has_fill, fill_value, fault) ==
  IF ~validate_dimension(new_rows) \/ ~validate_dimension(new_cols)
  THEN Outcome(c, "invalid_argument")
  ELSE IF new_rows = c.rows /\ new_cols = c.cols
       THEN Outcome([c EXCEPT !.data =
                       Repeat(Len(c.data), IF has_fill THEN fill_value ELSE DefaultVal)],
                    "ok")
  ELSE LET sz == calculate_size(Idx, new_rows, new_cols)
       IN  IF sz.throws THEN Outcome(c, "overflow_error")
           ELSE IF sz.size = <<0, 0>>
                THEN Outcome(Container(new_rows, new_cols, <<>>, c.cap), "ok")
           ELSE IF fault = "alloc" \/ ~Fits31(sz.size) THEN Outcome(c, "bad_alloc")
           ELSE IF ElemThrows(t, fault, "build") THEN Outcome(c, "element_ctor_threw")
           ELSE LET new_size == SizeVal(sz.size)
                    new_data == Repeat(new_size,
                                       IF has_fill THEN fill_value ELSE DefaultVal)
                    copying  == c.rows > 0 /\ c.cols > 0
                    copied   == IF copying
                                THEN ResizeCopyRows(c.data, c.cols, new_data, new_cols,
                                                    Min(c.rows, new_rows),
                                                    Min(c.cols, new_cols), 0)
                                ELSE new_data
                    inside   == \A i \in 0..(Min(c.rows, new_rows) - 1) :
                                  InBuf(c, i * c.cols, Min(c.cols, new_cols))
                IN  IF copying /\ ElemThrows(t, fault, "copy") /\ InBuf(c, 0, 1)
                    THEN Outcome(c, "element_copy_threw")
                    ELSE IF copying /\ ~inside THEN Outcome(c, "undefined")
                    ELSE Outcome(Container(new_rows, new_cols, copied, new_size), "ok")

\* resize_impl(new_rows, new_cols, fill_value); has_fill = FALSE is nullopt
resize_impl(t, c, new_rows, new_cols, has_fill, fill_value, fault) ==
  IF ~validate_dimension(new_rows) \/ ~validate_dimension(new_cols)
  THEN Outcome(c, "invalid_argument")
  ELSE IF new_rows = c.rows /\ new_cols = c.cols THEN Outcome(c, "ok")
  ELSE LET sz == calculate_size(Idx, new_rows, new_cols)
       IN  IF sz.throws THEN Outcome(c, "overflow_error")
           ELSE IF sz.size = <<0, 0>>
                THEN Outcome(Container(new_rows, new_cols, <<>>, c.cap), "ok")
           ELSE IF fault = "alloc" \/ ~Fits31(sz.size) THEN Outcome(c, "bad_alloc")
           ELSE IF ElemThrows(t, fault, "build") THEN Outcome(c, "element_ctor_threw")
           ELSE LET new_size == SizeVal(sz.size)
                    new_data == Repeat(new_size,
                                       IF has_fill THEN fill_value ELSE DefaultVal)
                    copying  == c.rows > 0 /\ c.cols > 0
                    copied   == IF copying
                                THEN ResizeCopyRows(c.data, c.cols, new_data, new_cols,
                                                    Min(c.rows, new_rows),
                                                    Min(c.cols, new_cols), 0)
                                ELSE new_data
                    inside   == \A i \in 0..(Min(c.rows, new_rows) - 1) :
                                  InBuf(c, i * c.cols, Min(c.cols, new_cols))
                IN  IF copying /\ ElemThrows(t, fault, "copy") /\ InBuf(c, 0, 1)
                    THEN Outcome(c, "element_copy_threw")
                    ELSE IF copying /\ ~inside THEN Outcome(c, "undefined")
                    ELSE Outcome(Container(new_rows, new_cols, copied, new_size), "ok")

\* reserve(rows, cols)
reserve(t, c, rows_a, cols_a, fault) ==
  IF ~validate_dimension(rows_a) \/ ~validate_dimension(cols_a)
  THEN Outcome(c, "invalid_argument")
  ELSE LET sz == calculate_size(Idx, rows_a, cols_a)
       IN  IF sz.throws THEN Outcome(c, "overflow_error")
           ELSE IF Fits31(sz.size) /\ SizeVal(sz.size) <= c.cap THEN Outcome(c, "ok")
           ELSE IF fault = "alloc" \/ ~Fits31(sz.size) THEN Outcome(c, "bad_alloc")
           ELSE IF Len(c.data) > 0 /\ ElemThrows(t, fault, "copy")
                THEN Outcome(c, "element_copy_threw")
           ELSE Outcome([c EXCEPT !.cap = SizeVal(sz.size)], "ok")

\* shrink_to_fit() that releases the buffer with its elements in it
shrink_to_fit_ReleasesAll(c) == {[c EXCEPT !.cap = 0]}

\* shrink_to_fit(): a non-binding request; the capacities it may leave
shrink_to_fit(c) == {[c EXCEPT !.cap = n] : n \in {c.cap, Len(c.data)}}

\* the byte memset stores for a reset option: static_cast<int>(opt)
\* converted to unsigned char
ResetOpts == {"All_bits0", "All_bits1", "Safe_max"}

ResetCode(opt) ==
  CASE opt = "All_bits0" -> 0
    [] opt = "All_bits1" -> 0 - 1
    [] opt = "Safe_max" -> 63

\* the enumerator itself, without the conversion to unsigned char
ResetByte_Signed(opt) == ResetCode(opt)

ResetByte(opt) == ResetCode(opt) % 256

\* reset(opt)
reset(t, c, opt) ==
  IF Len(c.data) = 0 THEN c
  ELSE IF IsTriviallyCopyable(t)
       THEN [c EXCEPT !.data = Repeat(Len(c.data), ResetByte(opt))]
       ELSE [c EXCEPT !.data = Repeat(Len(c.data), DefaultVal)]

\* fill(val)
fill(t, c, val, fault) ==
  IF IsTriviallyCopyable(t) /\ SizeofTy(t) = 1
  THEN Outcome([c EXCEPT !.data = Repeat(Len(c.data), val % 256)], "ok")
  ELSE IF Len(c.data) > 0 /\ ElemThrows(t, fault, "copy")
       THEN Outcome(c, "element_copy_threw")
       ELSE Outcome([c EXCEPT !.data = Repeat(Len(c.data), val)], "ok")

\* the size above which fill_parallel takes the parallel path
ParallelThreshold == 10000

\* data_.size() >= 10000
parallel_path_AtLeast(c) == Len(c.data) >= ParallelThreshold

\* data_.size() > 10000
parallel_path(c) == Len(c.data) > ParallelThreshold

\* fill_parallel(val): std::fill(par_unseq, ...) above the threshold
fill_parallel(t, c, val, fault) ==
  IF parallel_path(c)
  THEN IF ElemThrows(t, fault, "copy")
       THEN Outcome(c, "terminate")
       ELSE Outcome([c EXCEPT !.data = Repeat(Len(c.data), val)], "ok")
  ELSE fill(t, c, val, fault)

\* copy_row that copies the destination row onto the source row
copy_row_Backwards(t, c, src_row, dest_row, fault) ==
  IF src_row = dest_row THEN Outcome(c, "ok")
  ELSE LET src_offset  == calculate_offset(c, src_row, 0)
           dest_offset == calculate_offset(c, dest_row, 0)
           copy_size   == c.cols
       IN  IF ~InBuf(c, src_offset, copy_size) \/ ~InBuf(c, dest_offset, copy_size)
           THEN Outcome(c, "undefined")
           ELSE IF copy_size > 0 /\ ElemThrows(t, fault, "copy")
                THEN Outcome(c, "element_copy_threw")
           ELSE Outcome([c EXCEPT !.data =
                           CopyN(c.data, dest_offset, copy_size, c.data, src_offset)],
                        "ok")

\* copy_row(src_row, dest_row); the row indices are the caller's duty
copy_row(t, c, src_row, dest_row, fault) ==
  IF src_row = dest_row THEN Outcome(c, "ok")
  ELSE LET src_offset  == calculate_offset(c, src_row, 0)
           dest_offset == calculate_offset(c, dest_row, 0)
           copy_size   == c.cols
       IN  IF ~InBuf(c, src_offset, copy_size) \/ ~InBuf(c, dest_offset, copy_size)
           THEN Outcome(c, "undefined")
           ELSE IF copy_size > 0 /\ ElemThrows(t, fault, "copy")
                THEN Outcome(c, "element_copy_threw")
           ELSE Outcome([c EXCEPT !.data =
                           CopyN(c.data, src_offset, copy_size, c.data, dest_offset)],
                        "ok")

\* swap(d[p], d[q]) on buffer offsets
SwapAt(d, p, q) == [d EXCEPT ![p + 1] = d[q + 1], ![q + 1] = d[p + 1]]

\* the element loop of swap_rows stopping one element early
RECURSIVE SwapRowsLoop_OneShort(_, _, _, _, _)
SwapRowsLoop_OneShort(d, offset1, offset2, swap_size, i) ==
  IF i + 1 >= swap_size THEN d
  ELSE SwapRowsLoop_OneShort(SwapAt(d, offset1 + i, offset2 + i),
                             offset1, offset2, swap_size, i + 1)

\* the element loop of swap_rows, from i on
RECURSIVE SwapRowsLoop(_, _, _, _, _)
SwapRowsLoop(d, offset1, offset2, swap_size, i) ==
  IF i >= swap_size THEN d
  ELSE SwapRowsLoop(SwapAt(d, offset1 + i, offset2 + i),
                    offset1, offset2, swap_size, i + 1)

\* swap_rows(row1, row2)
swap_rows(c, row1, row2) ==
  IF row1 = row2 THEN Outcome(c, "ok")
  ELSE LET offset1   == calculate_offset(c, row1, 0)
           offset2   == calculate_offset(c, row2, 0)
           swap_size == c.cols
       IN  IF ~InBuf(c, offset1, swap_size) \/ ~InBuf(c, offset2, swap_size)
           THEN Outcome(c, "undefined")
           ELSE Outcome([c EXCEPT !.data =
                           SwapRowsLoop(c.data, offset1, offset2, swap_size, 0)],
                        "ok")

\* fill_row(row, val)
fill_row(t, c, row, val, fault) ==
  LET offset == calculate_offset(c, row, 0)
  IN  IF ~InBuf(c, offset, c.cols) THEN Outcome(c, "undefined")
      ELSE IF c.cols > 0 /\ ElemThrows(t, fault, "copy")
           THEN Outcome(c, "element_copy_threw")
      ELSE Outcome([c EXCEPT !.data =
                      [k \in 1..Len(c.data) |->
                         IF k - 1 >= offset /\ k - 1 < offset + c.cols
                         THEN val ELSE c.data[k]]], "ok")

\* (*this)(row, col) = val, the unchecked two-index access
set_element(c, row, col, val) ==
  LET offset == calculate_offset(c, row, col)
  IN  IF ~InBuf(c, offset, 1) THEN Outcome(c, "undefined")
      ELSE Outcome([c EXCEPT !.data[offset + 1] = val], "ok")

(***************************************************************************)
(* Transposition.  block_size is 64 / sizeof(Ty) by integer division.  The *)
(* loops thread the buffer d, the list tr of index pairs (bi, bj) visited  *)
(* by the innermost statement and ub, set when an access leaves a buffer.  *)
(* With block_size = 0 and at least one row the loop counters never        *)
(* advance and no statement with a side effect is reached: the loop either *)
(* runs forever or, in a build that assumes forward progress, is removed   *)
(* (elide), and the call returns without having moved an element.          *)
(***************************************************************************)
block_size(t) == 64 \div SizeofTy(t)

\* swap((*this)[bi][bj], (*this)[bj][bi])
TransposeSwap(s, n_cols, bi, bj) ==
  LET p == operator_index([cols |-> n_cols], bi) + bj
      q == operator_index([cols |-> n_cols], bj) + bi
  IN  IF p < Len(s.d) /\ q < Len(s.d)
      THEN [d |-> SwapAt(s.d, p, q), tr |-> Append(s.tr, <<bi, bj>>), ub |-> s.ub]
      ELSE [d |-> s.d, tr |-> Append(s.tr, <<bi, bj>>), ub |-> TRUE]

RECURSIVE TransposeBj(_, _, _, _, _)
TransposeBj(s, n_cols, bi, bj, j_end) ==
  IF bj >= j_end THEN s
  ELSE TransposeBj(TransposeSwap(s, n_cols, bi, bj), n_cols, bi, bj + 1, j_end)

\* the bi loop starting each diagonal block at the diagonal itself
RECURSIVE TransposeBi_FromDiagonal(_, _, _, _, _, _, _)
TransposeBi_FromDiagonal(s, n_cols, i, j, bi, i_end, j_end) ==
  IF bi >= i_end THEN s
  ELSE LET start_j == IF i = j THEN bi ELSE j
       IN  TransposeBi_FromDiagonal(TransposeBj(s, n_cols, bi, start_j, j_end),
                                    n_cols, i, j, bi + 1, i_end, j_end)

RECURSIVE TransposeBi(_, _, _, _, _, _, _)
TransposeBi(s, n_cols, i, j, bi, i_end, j_end) ==
  IF bi >= i_end THEN s
  ELSE LET start_j == IF i = j THEN bi + 1 ELSE j
       IN  TransposeBi(TransposeBj(s, n_cols, bi, start_j, j_end),
                       n_cols, i, j, bi + 1, i_end, j_end)

RECURSIVE TransposeJ(_, _, _, _, _, _)
TransposeJ(s, c, bs, i, j, i_end) ==
  IF j >= c.cols THEN s
  ELSE LET j_end == Min(j + bs, c.cols)
       IN  TransposeJ(TransposeBi(s, c.cols, i, j, i, i_end, j_end),
                      c, bs, i, j + bs, i_end)

RECURSIVE TransposeI(_, _, _, _)
TransposeI(s, c, bs, i) ==
  IF i >= c.rows THEN s
  ELSE LET i_end == Min(i + bs, c.rows)
       IN  TransposeI(TransposeJ(s, c, bs, i, i, i_end), c, bs, i + bs)

\* transpose()
transpose(t, c, elide) ==
  IF ~is_square(c) THEN [c |-> c, st |-> "invalid_argument", tr |-> <<>>]
  ELSE IF block_size(t) = 0 /\ c.rows > 0
       THEN [c |-> c, st |-> IF elide THEN "ok" ELSE "no_return", tr |-> <<>>]
  ELSE LET s == TransposeI([d |-> c.data, tr |-> <<>>, ub |-> FALSE],
                           c, block_size(t), 0)
       IN  IF s.ub THEN [c |-> c, st |-> "undefined", tr |-> s.tr]
           ELSE [c |-> [c EXCEPT !.data = s.d], st |-> "ok", tr |-> s.tr]

\* result[bj][bi] = (*this)[bi][bj]
TransposedAssign(s, c, res_cols, bi, bj) ==
  LET p == operator_index(c, bi) + bj
      q == operator_index([cols |-> res_cols], bj) + bi
  IN  IF p < Len(c.data) /\ q < Len(s.d)
      THEN [d |-> [s.d EXCEPT ![q + 1] = c.data[p + 1]],
            tr |-> Append(s.tr, <<bi, bj>>), ub |-> s.ub]
      ELSE [d |-> s.d, tr |-> Append(s.tr, <<bi, bj>>), ub |-> TRUE]

RECURSIVE TransposedBj(_, _, _, _, _, _)
TransposedBj(s, c, res_cols, bi, bj, j_end) ==
  IF bj >= j_end THEN s
  ELSE TransposedBj(TransposedAssign(s, c, res_cols, bi, bj),
                    c, res_cols, bi, bj + 1, j_end)

RECURSIVE TransposedBi(_, _, _, _, _, _, _)
TransposedBi(s, c, res_cols, j, bi, i_end, j_end) ==
  IF bi >= i_end THEN s
  ELSE TransposedBi(TransposedBj(s, c, res_cols, bi, j, j_end),
                    c, res_cols, j, bi + 1, i_end, j_end)

RECURSIVE TransposedJ(_, _, _, _, _, _, _)
TransposedJ(s, c, res_cols, bs, i, j, i_end) ==
  IF j >= c.cols THEN s
  ELSE LET j_end == Min(j + bs, c.cols)
       IN  TransposedJ(TransposedBi(s, c, res_cols, j, i, i_end, j_end),
                       c, res_cols, bs, i, j + bs, i_end)

RECURSIVE TransposedI(_, _, _, _, _)
TransposedI(s, c, res_cols, bs, i) ==
  IF i >= c.rows THEN s
  ELSE LET i_end == Min(i + bs, c.rows)
       IN  TransposedI(TransposedJ(s, c, res_cols, bs, i, 0, i_end),
                       c, res_cols, bs, i + bs)

\* transposed(): res is the returned container, c stays the receiver
transposed(t, c, fault, elide) ==
  LET made == array2d_dims(t, c.cols, c.rows, DefaultVal, fault)
  IN  IF made.st # "ok"
      THEN [c |-> c, res |-> array2d_default, st |-> made.st, tr |-> <<>>]
      ELSE IF block_size(t) = 0 /\ c.rows > 0
           THEN IF elide
                THEN [c |-> c, res |-> made.c, st |-> "ok", tr |-> <<>>]
                ELSE [c |-> c, res |-> array2d_default, st |-> "no_return", tr |-> <<>>]
      ELSE LET s == TransposedI([d |-> made.c.data, tr |-> <<>>, ub |-> FALSE],
                                c, made.c.cols, block_size(t), 0)
           IN  IF s.ub
               THEN [c |-> c, res |-> array2d_default, st |-> "undefined", tr |-> s.tr]
               ELSE IF Len(s.tr) > 0 /\ ElemThrows(t, fault, "copy")
                    THEN [c |-> c, res |-> array2d_default,
                          st |-> "element_copy_threw", tr |-> <<>>]
               ELSE [c |-> c, res |-> [made.c EXCEPT !.data = s.d],
                     st |-> "ok", tr |-> s.tr]

(***************************************************************************)
(* Element access and iteration.  An iterator is the offset of its pointer *)
(* from data_.data().                                                      *)
(***************************************************************************)
\* format_bounds_error(row, col): the pieces the message is concatenated of
format_bounds_error(c, row, col) ==
  <<"array2d: index (", ToString(row), ", ", ToString(col),
    ") out of range [0, ", ToString(c.rows), ") x [0, ", ToString(c.cols), ")">>

NoMsg == <<>>

\* at_impl with the upper bounds compared by > instead of >=
at_impl_OffByOne(c, row, col) ==
  IF row < 0 \/ row > c.rows \/ col < 0 \/ col > c.cols
  THEN [st |-> "out_of_range", off |-> 0, v |-> 0,
        msg |-> format_bounds_error(c, row, col)]
  ELSE LET off == calculate_offset(c, row, col)
       IN  IF InBuf(c, off, 1)
           THEN [st |-> "ok", off |-> off, v |-> c.data[off + 1], msg |-> NoMsg]
           ELSE [st |-> "undefined", off |-> off, v |-> 0, msg |-> NoMsg]

\* at_impl(row, col): off is the buffer offset read, v the element
at_impl(c, row, col) ==
  IF row < 0 \/ row >= c.rows \/ col < 0 \/ col >= c.cols
  THEN [st |-> "out_of_range", off |-> 0, v |-> 0,
        msg |-> format_bounds_error(c, row, col)]
  ELSE LET off == calculate_offset(c, row, col)
       IN  IF InBuf(c, off, 1)
           THEN [st |-> "ok", off |-> off, v |-> c.data[off + 1], msg |-> NoMsg]
           ELSE [st |-> "undefined", off |-> off, v |-> 0, msg |-> NoMsg]

\* operator()(row, col): the buffer offset of the element denoted
operator_call(c, row, col) == calculate_offset(c, row, col)

\* begin(), end()
begin(c) == 0

end(c) == Len(c.data)

\* for (it = begin(); it != end(); ++it) visit(*it): the offsets visited
RECURSIVE ForwardFrom(_, _, _)
ForwardFrom(c, it, seen) ==
  IF it = end(c) THEN seen ELSE ForwardFrom(c, it + 1, Append(seen, it))

ForwardOrder(c) == ForwardFrom(c, begin(c), <<>>)

\* rbegin() = reverse_iterator(end()), rend() = reverse_iterator(begin());
\* *rit denotes the element before the base position, ++rit decrements it
RECURSIVE ReverseFrom(_, _, _)
ReverseFrom(c, base, seen) ==
  IF base = begin(c) THEN seen ELSE ReverseFrom(c, base - 1, Append(seen, base - 1))

ReverseOrder(c) == ReverseFrom(c, end(c), <<>>)

(***************************************************************************)
(* Array2d_iterator<T>: a pointer ptr_ into the buffer, here the offset of *)
(* the element it points at (size() for end()), and whether T is const.    *)
(* The operators are defined while the positions stay within the buffer    *)
(* and its end.                                                            *)
(***************************************************************************)
Array2d_iterator(ptr, is_const) == [ptr |-> ptr, is_const |-> is_const]

\* data()
it_data(a) == a.ptr

\* Array2d_iterator<const T>(other): the converting constructor
it_to_const(other) == Array2d_iterator(it_data(other), TRUE)

\* operator*
it_deref(c, a) == c.data[a.ptr + 1]

\* operator+(offset), operator-(offset)
it_plus(a, offset) == Array2d_iterator(a.ptr + offset, a.is_const)

it_minus(a, offset) == Array2d_iterator(a.ptr - offset, a.is_const)

\* the non-member operator+(offset, iter)
it_plus_free(offset, iter) == it_plus(iter, offset)

\* operator-(other), for both element types of other
it_distance(a, other) == a.ptr - it_data(other)

\* operator[](offset)
it_index(c, a, offset) == c.data[a.ptr + offset + 1]

\* operator++(int) returning the position after the step
it_post_inc_ReturnsNew(a) ==
  <<Array2d_iterator(a.ptr + 1, a.is_const), [a EXCEPT !.ptr = a.ptr + 1]>>

\* operator++(int), operator--(int): the pair <<iterator returned, *this
\* after the call>>
it_post_inc(a) == <<Array2d_iterator(a.ptr, a.is_const), [a EXCEPT !.ptr = a.ptr + 1]>>

it_post_dec(a) == <<Array2d_iterator(a.ptr, a.is_const), [a EXCEPT !.ptr = a.ptr - 1]>>

\* operator<=>(other), operator==(other), for both element types of other
it_cmp(a, other) == IF a.ptr < it_data(other) THEN 0 - 1
                    ELSE IF a.ptr > it_data(other) THEN 1 ELSE 0

it_eq(a, other) == a.ptr = it_data(other)

(***************************************************************************)
(* Views and column copies.  A std::span or a row range does not own its   *)
(* elements: it is the offset of its first element in the buffer of the    *)
(* container and its number of elements.                                   *)
(***************************************************************************)
Span(off, n) == [off |-> off, len |-> n]

\* row(row): {data_.data() + calculate_offset(row, 0), cols_}
row_span(c, row) == Span(calculate_offset(c, row, 0), c.cols)

\* row_range(row): the wrapper {ptr_, cols_}, with begin() at ptr_ and end()
\* at ptr_ + cols_
row_range(c, row) ==
  LET ptr == calculate_offset(c, row, 0)
  IN  [first |-> ptr, last |-> ptr + c.cols]

\* view[i] = val for a view of the buffer of c
span_write(c, view, i, val) ==
  IF i < 0 \/ i >= view.len \/ ~InBuf(c, view.off + i, 1)
  THEN Outcome(c, "undefined")
  ELSE Outcome([c EXCEPT !.data[view.off + i + 1] = val], "ok")

\* the push_back loop of col, from row i on
RECURSIVE ColLoop(_, _, _, _)
ColLoop(c, col, i, result) ==
  IF i >= c.rows THEN result
  ELSE ColLoop(c, col, i + 1, Append(result, c.data[calculate_offset(c, i, col) + 1]))

\* col(col) reading along the row instead of down the column
col_copy_AlongRow(t, c, col, fault) ==
  IF \E i \in 0..(c.rows - 1) : ~InBuf(c, calculate_offset(c, i, col), 1)
  THEN [res |-> <<>>, st |-> "undefined"]
  ELSE IF c.rows > 0 /\ fault = "alloc" THEN [res |-> <<>>, st |-> "bad_alloc"]
  ELSE IF c.rows > 0 /\ ElemThrows(t, fault, "copy")
       THEN [res |-> <<>>, st |-> "element_copy_threw"]
  ELSE [res |-> [i \in 1..c.rows |-> c.data[Min(col + i, Len(c.data))]], st |-> "ok"]

\* col(col): a new vector of the elements at (0, col), (1, col), ...
col_copy(t, c, col, fault) ==
  IF \E i \in 0..(c.rows - 1) : ~InBuf(c, calculate_offset(c, i, col), 1)
  THEN [res |-> <<>>, st |-> "undefined"]
  ELSE IF c.rows > 0 /\ fault = "alloc" THEN [res |-> <<>>, st |-> "bad_alloc"]
  ELSE IF c.rows > 0 /\ ElemThrows(t, fault, "copy")
       THEN [res |-> <<>>, st |-> "element_copy_threw"]
  ELSE [res |-> ColLoop(c, col, 0, <<>>), st |-> "ok"]

\* submatrix_row_major(sr, sc, nr, nc) returning nr * nc elements from the
\* block's first element in every case
submatrix_row_major_WholeBlock(c, start_row, start_col, num_rows, num_cols) ==
  Span(calculate_offset(c, start_row, start_col), num_rows * num_cols)

\* submatrix_row_major(start_row, start_col, num_rows, num_cols)
submatrix_row_major(c, start_row, start_col, num_rows, num_cols) ==
  IF start_col = 0 /\ num_cols = c.cols
  THEN Span(calculate_offset(c, start_row, 0), num_rows * c.cols)
  ELSE Span(calculate_offset(c, start_row, start_col), num_cols)

(***************************************************************************)
(* Whole-container operations and the remaining constructors.              *)
(***************************************************************************)
\* std::swap of the member f of the objects at positions i and j of objs;
\* i = j when both names denote one object
swap_member(objs, i, j, f) ==
  LET tmp   == objs[i][f]
      first == [objs EXCEPT ![i][f] = objs[j][f]]
  IN  [first EXCEPT ![j][f] = tmp]

\* swap(other) that leaves cols_ where it is
swap_objects_NoCols(objs, i, j) ==
  swap_member(swap_member(swap_member(objs, i, j, "rows"), i, j, "data"),
              i, j, "cap")

\* swap(other) of the object at position i with the one at position j:
\* rows_, cols_, then data_ (the vectors exchange buffers, so the
\* capacities go with the elements)
swap_objects(objs, i, j) ==
  swap_member(swap_member(swap_member(swap_member(objs, i, j, "rows"),
                                      i, j, "cols"),
                          i, j, "data"),
              i, j, "cap")

\* swap(other) on two objects: a pair <<this, other>> after the call
swap(c, other) == swap_objects(<<c, other>>, 1, 2)

\* c.swap(c)
swap_self(c) == swap_objects(<<c>>, 1, 1)[1]

\* the non-member swap(lhs, rhs): lhs.swap(rhs)
swap_free(lhs, rhs) == swap(lhs, rhs)

\* x <=> y of two integers or two elements: std::strong_ordering::less,
\* equal, greater as -1, 0, 1
Ordering(x, y) == IF x < y THEN 0 - 1 ELSE IF x > y THEN 1 ELSE 0

\* data_ == other.data_ (std::vector): equal sizes and equal elements
vector_eq(a, b) == Len(a) = Len(b) /\ \A k \in 1..Len(a) : a[k] = b[k]

\* data_ <=> other.data_ (std::vector): lexicographic from element k on, a
\* proper prefix being less
RECURSIVE vector_cmp(_, _, _)
vector_cmp(a, b, k) ==
  IF k > Len(a) THEN (IF k > Len(b) THEN 0 ELSE 0 - 1)
  ELSE IF k > Len(b) THEN 1
  ELSE IF Ordering(a[k], b[k]) # 0 THEN Ordering(a[k], b[k])
  ELSE vector_cmp(a, b, k + 1)

\* operator==(other)
operator_eq(c, other) ==
  c.rows = other.rows /\ c.cols = other.cols /\ vector_eq(c.data, other.data)

\* operator<=> deciding by cols_ before rows_
operator_cmp_ColsFirst(c, other) ==
  IF Ordering(c.cols, other.cols) # 0 THEN Ordering(c.cols, other.cols)
  ELSE IF Ordering(c.rows, other.rows) # 0 THEN Ordering(c.rows, other.rows)
  ELSE vector_cmp(c.data, other.data, 1)

\* operator<=>(other)
operator_cmp(c, other) ==
  IF Ordering(c.rows, other.rows) # 0 THEN Ordering(c.rows, other.rows)
  ELSE IF Ordering(c.cols, other.cols) # 0 THEN Ordering(c.cols, other.cols)
  ELSE vector_cmp(c.data, other.data, 1)

\* operator=(const array2d &) = default: member-wise, in declaration order
\* rows_, cols_, data_; the vector assignment allocates only when the
\* source does not fit the capacity
copy_assign(t, c, other, fault) ==
  LET dims_set == [c EXCEPT !.rows = other.rows, !.cols = other.cols]
      n        == Len(other.data)
  IN  IF n > c.cap /\ fault = "alloc" THEN Outcome(dims_set, "bad_alloc")
      ELSE IF n > 0 /\ ElemThrows(t, fault, "copy")
           THEN Outcome(dims_set, "element_copy_threw")
      ELSE Outcome([dims_set EXCEPT !.data = other.data,
                                    !.cap = IF n > c.cap THEN n ELSE c.cap], "ok")

\* array2d(array2d &&) = default: member-wise moves; the pair <<new object,
\* moved-from source>>.  Moving an int copies it, the moved-from vector is
\* empty and owns no storage
move_construct(c) == <<c, [c EXCEPT !.data = <<>>, !.cap = 0]>>

\* operator=(array2d &&) = default: member-wise move assignments in the
\* order rows_, cols_, data_; the pair <<destination, moved-from source>>.
\* The destination takes the buffer of the source and releases its own
move_assign(dest, c) ==
  <<[dest EXCEPT !.rows = c.rows, !.cols = c.cols, !.data = c.data, !.cap = c.cap],
    [c EXCEPT !.data = <<>>, !.cap = 0]>>

\* the rows of a nested list concatenated last row first
RECURSIVE Flatten_Reversed(_, _)
Flatten_Reversed(list, k) ==
  IF k > Len(list) THEN <<>> ELSE Flatten_Reversed(list, k + 1) \o list[k]

\* the concatenation of the rows of a nested list
RECURSIVE Flatten(_, _)
Flatten(list, k) ==
  IF k > Len(list) THEN <<>> ELSE list[k] \o Flatten(list, k + 1)

\* array2d(initializer_list<initializer_list<Ty>>)
array2d_list(t, init_list, fault) ==
  IF Len(init_list) = 0 THEN Outcome(array2d_default, "ok")
  ELSE LET rows_n == Len(init_list)
           cols_n == Len(init_list[1])
       IN  IF \E k \in 1..rows_n : Len(init_list[k]) # cols_n
           THEN Outcome(array2d_default, "invalid_argument")
           ELSE LET sz == calculate_size(Idx, rows_n, cols_n)
                IN  IF sz.throws THEN Outcome(array2d_default, "overflow_error")
                    ELSE IF SizeVal(sz.size) > 0 /\ fault = "alloc"
                         THEN Outcome(array2d_default, "bad_alloc")
                    ELSE IF SizeVal(sz.size) > 0 /\ ElemThrows(t, fault, "build")
                         THEN Outcome(array2d_default, "element_ctor_threw")
                    ELSE Outcome(Container(rows_n, cols_n, Flatten(init_list, 1),
                                           SizeVal(sz.size)), "ok")

\* array2d(rows, cols, container) comparing the length only when the
\* expected size is not zero
array2d_container_SkipEmpty(t, rows_a, cols_a, container, fault) ==
  IF ~validate_dimension(rows_a) \/ ~validate_dimension(cols_a)
  THEN Outcome(array2d_default, "invalid_argument")
  ELSE LET sz == calculate_size(Idx, rows_a, cols_a)
       IN  IF sz.throws THEN Outcome(array2d_default, "overflow_error")
           ELSE IF sz.size # <<0, 0>> /\ ToU32(Len(container)) # sz.size
                THEN Outcome(array2d_default, "invalid_argument")
           ELSE IF Len(container) > 0 /\ fault = "alloc"
                THEN Outcome(array2d_default, "bad_alloc")
           ELSE IF Len(container) > 0 /\ ElemThrows(t, fault, "build")
                THEN Outcome(array2d_default, "element_ctor_threw")
           ELSE Outcome(Container(rows_a, cols_a, container, Len(container)), "ok")

\* array2d(rows, cols, container)
array2d_container(t, rows_a, cols_a, container, fault) ==
  IF ~validate_dimension(rows_a) \/ ~validate_dimension(cols_a)
  THEN Outcome(array2d_default, "invalid_argument")
  ELSE LET sz == calculate_size(Idx, rows_a, cols_a)
       IN  IF sz.throws THEN Outcome(array2d_default, "overflow_error")
           ELSE IF ToU32(Len(container)) # sz.size
                THEN Outcome(array2d_default, "invalid_argument")
           ELSE IF Len(container) > 0 /\ fault = "alloc"
                THEN Outcome(array2d_default, "bad_alloc")
           ELSE IF Len(container) > 0 /\ ElemThrows(t, fault, "build")
                THEN Outcome(array2d_default, "element_ctor_threw")
           ELSE Outcome(Container(rows_a, cols_a, container, Len(container)), "ok")

(***************************************************************************)
(* The state machine.  m is the container, pre the container before the    *)
(* last call, op the last call (its name, arguments and outcome: "ok" or    *)
(* the exception thrown), ret what it returned, ty the element type.  A     *)
(* failing constructor builds no object, so m stays the container it was.  *)
(* Between two calls the caller drops what the last call returned          *)
(* (Discard).                                                              *)
(***************************************************************************)
Op(name, r, c, v, st) == [name |-> name, r |-> r, c |-> c, v |-> v, st |-> st]

Ret(c, off, v, msg, tr) == [c |-> c, off |-> off, v |-> v, msg |-> msg, tr |-> tr]

NoRet == Ret(array2d_default, 0, 0, NoMsg, <<>>)

\* outcomes after which the program makes no further call: the call did
\* not return, had undefined behaviour, or ended in std::terminate
Stopped == {"no_return", "undefined", "terminate"}

NoOp == Op("none", 0, 0, 0, "ok")

\* no call is in progress and the last one returned or threw
Running == op = NoOp

\* the faults worth injecting into a call that makes a buffer of the shape
\* sh: a call that allocates nothing meets none
FaultsAt(sh, F) == IF sh[1] > 0 /\ sh[2] > 0 /\ sh[1] < 2^16 THEN F ELSE {"none"}

\* argument values
DimArgs == (0 - 1)..MaxDim

Shapes == (DimArgs \X DimArgs) \cup {<<2^16, 2^16>>}

FillVals == {99}

Iota(n) == [k \in 1..n |-> k]

\* flat sources 1, 2, ..., n for a shape: of the right length, one
\* element short and one element long
SourcesFor(sh) ==
  IF sh[1] < 0 \/ sh[2] < 0 \/ sh[1] > MaxDim \/ sh[2] > MaxDim THEN {Iota(1)}
  ELSE {Iota(n) : n \in {sh[1] * sh[2], sh[1] * sh[2] + 1} \cup
                         (IF sh[1] * sh[2] > 0 THEN {sh[1] * sh[2] - 1} ELSE {})}

\* nested lists: r rows of c elements numbered row-major, and the same with
\* row k one element longer (k = 1: every later row is shorter than the
\* first)
NestedIota(r, c) == [i \in 1..r |-> [j \in 1..c |-> (i - 1) * c + j]]

Ragged(r, c, k) ==
  [i \in 1..r |-> IF i = k THEN Append(NestedIota(r, c)[i], 0) ELSE NestedIota(r, c)[i]]

InitLists ==
  {NestedIota(r, c) : r \in 0..MaxDim, c \in 0..MaxDim}
    \cup UNION {{Ragged(r, c, k) : k \in 1..r} : r \in 2..MaxDim, c \in 0..MaxDim}

\* the other operand of swap and of copy assignment
Others ==
  {array2d_dims("uint8", sh[1], sh[2], 99, "none").c :
     sh \in {<<0, 0>>, <<1, 2>>, <<2, 0>>, <<MaxDim, MaxDim>>}}

ValidRows == 0..(m.rows - 1)
ValidCols == 0..(m.cols - 1)

\* no sequence argument
NoArg == <<>>

StepArg(o, new_m, new_ret, a) ==
  /\ m' = new_m
  /\ pre' = m
  /\ op' = o
  /\ ret' = new_ret
  /\ arg' = a
  /\ UNCHANGED <<ty, cs, par>>

Step(o, new_m, new_ret) == StepArg(o, new_m, new_ret, NoArg)

\* a constructor call: the new object replaces m when it is built
BuiltFrom(name, r, c, v, a, out) ==
  StepArg(Op(name, r, c, v, out.st),
          IF out.st = "ok" THEN out.c ELSE m, NoRet, a)

Built(name, r, c, v, out) == BuiltFrom(name, r, c, v, NoArg, out)

\* an in-place call
Called(name, r, c, v, out) ==
  Step(Op(name, r, c, v, out.st), out.c, NoRet)

Construct ==
  /\ Running
  /\ \E sh \in Shapes :
       \E fault \in FaultsAt(sh, BuildFaults) :
       Built("array2d", sh[1], sh[2], 0,
             array2d_dims(ty, sh[1], sh[2], DefaultVal, fault))

ConstructVal ==
  /\ Running
  /\ \E sh \in Shapes, v \in FillVals :
       \E fault \in FaultsAt(sh, BuildFaults) :
       Built("array2d_val", sh[1], sh[2], v,
             array2d_dims(ty, sh[1], sh[2], v, fault))

ConstructList ==
  /\ Running
  /\ \E l \in InitLists, fault \in BuildFaults :
       BuiltFrom("array2d_list", Len(l), IF Len(l) = 0 THEN 0 ELSE Len(l[1]), 0,
                 l, array2d_list(ty, l, fault))

ConstructContainer ==
  /\ Running
  /\ \E sh \in Shapes :
       \E src \in SourcesFor(sh), fault \in FaultsAt(sh, BuildFaults) :
         BuiltFrom("array2d_container", sh[1], sh[2], Len(src), src,
                   array2d_container(ty, sh[1], sh[2], src, fault))

Resize ==
  /\ Running
  /\ \E sh \in Shapes :
       \E fault \in FaultsAt(sh, Faults) :
       Called("resize", sh[1], sh[2], 0,
              resize_impl(ty, m, sh[1], sh[2], FALSE, 0, fault))

ResizeVal ==
  /\ Running
  /\ \E sh \in Shapes, v \in FillVals :
       \E fault \in FaultsAt(sh, Faults) :
       Called("resize_val", sh[1], sh[2], v,
              resize_impl(ty, m, sh[1], sh[2], TRUE, v, fault))

Reserve ==
  /\ Running
  /\ \E sh \in Shapes :
       \E fault \in FaultsAt(sh, CopyFaults) :
       Called("reserve", sh[1], sh[2], 0, reserve(ty, m, sh[1], sh[2], fault))

ShrinkToFit ==
  /\ Running
  /\ \E c2 \in shrink_to_fit(m) :
       Called("shrink_to_fit", 0, 0, 0, Outcome(c2, "ok"))

Fill ==
  /\ Running
  /\ \E v \in FillVals, fault \in CopyFaults :
       Called("fill", 0, 0, v, fill(ty, m, v, fault))

FillParallel ==
  /\ Running
  /\ \E v \in FillVals, fault \in CopyFaults :
       Called("fill_parallel", 0, 0, v, fill_parallel(ty, m, v, fault))

Reset ==
  /\ Running
  /\ \E opt \in ResetOpts :
       Called("reset", ResetCode(opt), 0, ResetByte(opt),
              Outcome(reset(ty, m, opt), "ok"))

CopyRow ==
  /\ Running
  /\ \E src \in ValidRows, dst \in ValidRows, fault \in CopyFaults :
       Called("copy_row", src, dst, 0, copy_row(ty, m, src, dst, fault))

SwapRows ==
  /\ Running
  /\ \E r1 \in ValidRows, r2 \in ValidRows :
       Called("swap_rows", r1, r2, 0, swap_rows(m, r1, r2))

FillRow ==
  /\ Running
  /\ \E r \in ValidRows, v \in FillVals, fault \in CopyFaults :
       Called("fill_row", r, 0, v, fill_row(ty, m, r, v, fault))

Transpose ==
  /\ Running
  /\ \E elide \in BOOLEAN :
       LET out == transpose(ty, m, elide)
       IN  Step(Op("transpose", 0, 0, 0, out.st), out.c,
                Ret(array2d_default, 0, 0, NoMsg, out.tr))

Transposed ==
  /\ Running
  /\ \E fault \in Faults, elide \in BOOLEAN :
       LET out == transposed(ty, m, fault, elide)
       IN  Step(Op("transposed", 0, 0, 0, out.st), out.c,
                Ret(out.res, 0, 0, NoMsg, out.tr))

At ==
  /\ Running
  /\ \E r \in DimArgs, c \in DimArgs :
       LET out == at_impl(m, r, c)
       IN  Step(Op("at", r, c, 0, out.st), m,
                Ret(array2d_default, out.off, out.v, out.msg, <<>>))

Swap ==
  /\ Running
  /\ \E other \in Others :
       LET out == swap(m, other)
       IN  StepArg(Op("swap", other.rows, other.cols, 0, "ok"), out[1],
                   Ret(out[2], 0, 0, NoMsg, <<>>), other.data)

\* swap(m, other)
SwapFree ==
  /\ Running
  /\ \E other \in Others :
       LET out == swap_free(m, other)
       IN  StepArg(Op("swap_free", other.rows, other.cols, 0, "ok"), out[1],
                   Ret(out[2], 0, 0, NoMsg, <<>>), other.data)

\* m.swap(other); m.swap(other)
SwapTwice ==
  /\ Running
  /\ \E other \in Others :
       LET once  == swap(m, other)
           twice == swap(once[1], once[2])
       IN  StepArg(Op("swap_twice", other.rows, other.cols, 0, "ok"), twice[1],
                   Ret(twice[2], 0, 0, NoMsg, <<>>), other.data)

\* m.swap(m)
SwapSelf ==
  /\ Running
  /\ Step(Op("swap_self", 0, 0, 0, "ok"), swap_self(m), NoRet)

CopyAssign ==
  /\ Running
  /\ \E other \in Others, fault \in CopyFaults :
       LET out == copy_assign(ty, m, other, fault)
       IN  Step(Op("copy_assign", other.rows, other.cols, 0, out.st), out.c,
                Ret(other, 0, 0, NoMsg, <<>>))

MoveConstruct ==
  /\ Running
  /\ LET out == move_construct(m)
     IN  Step(Op("move_construct", 0, 0, 0, "ok"), out[2],
              Ret(out[1], 0, 0, NoMsg, <<>>))

\* dest = std::move(m) for a container dest: m is the moved-from source
MoveAssign ==
  /\ Running
  /\ \E dest \in Others :
       LET out == move_assign(dest, m)
       IN  Step(Op("move_assign", dest.rows, dest.cols, 0, "ok"), out[2],
                Ret(out[1], 0, 0, NoMsg, <<>>))

\* the right-hand operands of == and <=>: every shape up to MaxDim x MaxDim
\* with elements 1, 2, ..., n, all 0 and all 99
Operands ==
  UNION {{Container(r, c, Iota(r * c), r * c),
          Container(r, c, Repeat(r * c, 0), r * c),
          Container(r, c, Repeat(r * c, 99), r * c)} :
           r \in 0..MaxDim, c \in 0..MaxDim}

\* m == other; the call returns a bool
Equals ==
  /\ Running
  /\ \E other \in Operands :
       Step(Op("operator_eq", other.rows, other.cols, 0, "ok"), m,
            Ret(other, 0, IF operator_eq(m, other) THEN 1 ELSE 0, NoMsg, <<>>))

\* m <=> other
Compare ==
  /\ Running
  /\ \E other \in Operands :
       Step(Op("operator_cmp", other.rows, other.cols, 0, "ok"), m,
            Ret(other, 0, operator_cmp(m, other), NoMsg, <<>>))

\* what a call that returns a view returns: the offset and the extent
RetView(view) == Ret(array2d_default, view.off, view.len, NoMsg, <<>>)

\* m.row(r)
Row ==
  /\ Running
  /\ \E r \in ValidRows :
       Step(Op("row", r, 0, 0, "ok"), m, RetView(row_span(m, r)))

\* m.row_range(r)
RowRange ==
  /\ Running
  /\ \E r \in ValidRows :
       LET w == row_range(m, r)
       IN  Step(Op("row_range", r, 0, 0, "ok"), m,
                RetView(Span(w.first, w.last - w.first)))

\* m.row(r)[i] = v
RowWrite ==
  /\ Running
  /\ \E r \in ValidRows, i \in ValidCols, v \in FillVals :
       LET view == row_span(m, r)
           out  == span_write(m, view, i, v)
       IN  Step(Op("row_write", r, i, v, out.st), out.c, RetView(view))

\* *(m.row_range(r).begin() + i) = v
RowRangeWrite ==
  /\ Running
  /\ \E r \in ValidRows, i \in ValidCols, v \in FillVals :
       LET w    == row_range(m, r)
           view == Span(w.first, w.last - w.first)
           out  == span_write(m, view, i, v)
       IN  Step(Op("row_range_write", r, i, v, out.st), out.c, RetView(view))

\* m.col(c); ret.tr is the vector returned
Col ==
  /\ Running
  /\ \E c \in ValidCols, fault \in CopyFaults :
       LET out == col_copy(ty, m, c, fault)
       IN  Step(Op("col", 0, c, 0, out.st), m,
                Ret(array2d_default, 0, 0, NoMsg, out.res))

\* auto column = m.col(c); column[i] = v
ColModify ==
  /\ Running
  /\ \E c \in ValidCols, i \in ValidRows, v \in FillVals :
       LET out == col_copy(ty, m, c, "none")
       IN  Step(Op("col_modify", i, c, v, out.st), m,
                Ret(array2d_default, 0, 0, NoMsg,
                    IF out.st = "ok" THEN [out.res EXCEPT ![i + 1] = v] ELSE <<>>))

\* the blocks that pass the four bounds assertions of submatrix_row_major
Blocks ==
  {b \in ValidRows \X ValidCols \X (0..MaxDim) \X (0..MaxDim) :
     /\ b[1] + b[3] - 1 \in ValidRows
     /\ b[2] + b[4] - 1 \in ValidCols}

\* m.submatrix_row_major(sr, sc, nr, nc); arg is <<nr, nc>>
Submatrix ==
  /\ Running
  /\ \E b \in Blocks :
       StepArg(Op("submatrix_row_major", b[1], b[2], 0, "ok"), m,
               RetView(submatrix_row_major(m, b[1], b[2], b[3], b[4])),
               <<b[3], b[4]>>)

\* the positions of the iterators over the buffer of m: begin() .. end()
Positions == begin(m)..end(m)

\* (a + n) - n, (a + n) - a, n + a and a + n for an iterator a at position
\* p and an offset n that keeps a + n over the buffer; ret.tr lists the
\* position of the first, the second, and the positions of the last two
IterArith ==
  /\ Running
  /\ \E p \in Positions, k \in BOOLEAN :
       \E n \in (begin(m) - p)..(end(m) - p) :
         LET a == Array2d_iterator(p, k)
         IN  Step(Op("iter_arith", p, n, 0, "ok"), m,
                  Ret(array2d_default, 0, 0, NoMsg,
                      <<it_data(it_minus(it_plus(a, n), n)),
                        it_distance(it_plus(a, n), a),
                        it_data(it_plus_free(n, a)),
                        it_data(it_plus(a, n))>>))

\* a[n] and *(a + n) for a + n at an element: ret.v and ret.off
IterIndex ==
  /\ Running
  /\ \E p \in Positions, k \in BOOLEAN :
       \E n \in (begin(m) - p)..(end(m) - p - 1) :
         LET a == Array2d_iterator(p, k)
         IN  Step(Op("iter_index", p, n, 0, "ok"), m,
                  Ret(array2d_default, it_deref(m, it_plus(a, n)),
                      it_index(m, a, n), NoMsg, <<>>))

\* a++ and a--: ret.tr lists the position returned and the position of a
\* after the call
IterPostInc ==
  /\ Running
  /\ \E p \in Positions \ {end(m)}, k \in BOOLEAN :
       LET out == it_post_inc(Array2d_iterator(p, k))
       IN  Step(Op("iter_post_inc", p, 0, 0, "ok"), m,
                Ret(array2d_default, 0, 0, NoMsg,
                    <<it_data(out[1]), it_data(out[2])>>))

IterPostDec ==
  /\ Running
  /\ \E p \in Positions \ {begin(m)}, k \in BOOLEAN :
       LET out == it_post_dec(Array2d_iterator(p, k))
       IN  Step(Op("iter_post_dec", p, 0, 0, "ok"), m,
                Ret(array2d_default, 0, 0, NoMsg,
                    <<it_data(out[1]), it_data(out[2])>>))

\* a <=> b, b - a and a == b for a mutable-element iterator a at p and b
\* at q, then the same with b converted to a read-only iterator: ret.tr
\* lists the six results, true as 1
IterCompare ==
  /\ Running
  /\ \E p \in Positions, q \in Positions :
       LET a  == Array2d_iterator(p, FALSE)
           b  == Array2d_iterator(q, FALSE)
           cb == it_to_const(b)
       IN  Step(Op("iter_compare", p, q, 0, "ok"), m,
                Ret(array2d_default, 0, 0, NoMsg,
                    <<it_cmp(a, b), it_distance(b, a),
                      IF it_eq(a, b) THEN 1 ELSE 0,
                      it_cmp(a, cb), it_distance(cb, a),
                      IF it_eq(a, cb) THEN 1 ELSE 0>>))

\* no parallel fill in progress
NoPar == [todo |-> {}, hits |-> <<>>]

\* the elements of block k of NChunks blocks of n elements
ParChunk(n, k) == (((k - 1) * n) \div NChunks + 1)..((k * n) \div NChunks)

\* shapes around the threshold of fill_parallel
FillShapes ==
  {<<0, 0>>, <<1, 1>>, <<1, ParallelThreshold>>, <<2, ParallelThreshold \div 2>>,
   <<1, ParallelThreshold + 1>>, <<2, ParallelThreshold \div 2 + 1>>}

\* array2d(rows, cols) for a shape around the threshold
ConstructLarge ==
  /\ Running
  /\ \E sh \in FillShapes :
       Built("array2d", sh[1], sh[2], 0,
             array2d_dims(ty, sh[1], sh[2], DefaultVal, "none"))

\* fill_parallel(val) is called.  At or below the threshold it is fill(val)
\* and returns; above it std::fill(par_unseq, ...) starts with every block
\* of elements still to assign, unless an element assignment is going to
\* throw, which ends the program (std::terminate).  op.r tells the path:
\* 1 for the parallel one
FillParallelCall ==
  /\ Running
  /\ \E v \in FillVals, fault \in CopyFaults :
       IF ~parallel_path(m)
       THEN Called("fill_parallel", 0, 0, v, fill(ty, m, v, fault))
       ELSE /\ m' = m
            /\ pre' = m
            /\ op' = Op("fill_parallel", 1, 0, v,
                        IF ElemThrows(ty, fault, "copy") THEN "terminate"
                        ELSE "running")
            /\ ret' = NoRet
            /\ par' = [todo |-> 1..NChunks, hits |-> Repeat(Len(m.data), 0)]
            /\ UNCHANGED <<ty, cs, arg>>

\* some thread assigns val to the elements of one block not yet assigned;
\* the blocks are taken in any order
FillParallelAssign ==
  /\ op.name = "fill_parallel"
  /\ op.st = "running"
  /\ \E k \in par.todo :
       \E block \in {ParChunk(Len(m.data), k)} :
         /\ m' = [m EXCEPT !.data = [i \in DOMAIN m.data |->
                                       IF i \in block THEN op.v ELSE m.data[i]]]
         /\ par' = [todo |-> par.todo \ {k},
                    hits |-> [i \in DOMAIN par.hits |->
                               IF i \in block THEN par.hits[i] + 1
                               ELSE par.hits[i]]]
  /\ UNCHANGED <<pre, op, ret, ty, cs, arg>>

\* every block is assigned: std::fill returns, and fill_parallel with it
FillParallelReturn ==
  /\ op.name = "fill_parallel"
  /\ op.st = "running"
  /\ par.todo = {}
  /\ op' = [op EXCEPT !.st = "ok"]
  /\ UNCHANGED <<m, pre, ret, ty, cs, arg, par>>

\* the value the last call returned goes out of scope (~array2d() of a
\* returned container); the container itself is untouched
Discard ==
  /\ op # NoOp
  /\ op.st \notin Stopped
  /\ op.st # "running"
  /\ m' = m
  /\ pre' = m
  /\ op' = NoOp
  /\ ret' = NoRet
  /\ arg' = NoArg
  /\ par' = NoPar
  /\ UNCHANGED <<ty, cs>>

NoCalc == [idx |-> "int", rows |-> 0, cols |-> 0, call |-> "none",
           throws |-> FALSE, count |-> <<0, 0>>]

Init ==
  /\ m = array2d_default
  /\ pre = array2d_default
  /\ op = NoOp
  /\ ret = NoRet
  /\ ty \in ElemTypes
  /\ cs = NoCalc
  /\ arg = NoArg
  /\ par = NoPar

Next ==
  \/ Construct
  \/ ConstructVal
  \/ ConstructList
  \/ ConstructContainer
  \/ Resize
  \/ ResizeVal
  \/ Reserve
  \/ ShrinkToFit
  \/ Fill
  \/ FillParallel
  \/ Reset
  \/ CopyRow
  \/ SwapRows
  \/ FillRow
  \/ Transpose
  \/ Transposed
  \/ At
  \/ Swap
  \/ CopyAssign
  \/ MoveConstruct
  \/ MoveAssign
  \/ Discard

Spec == Init /\ [][Next]_vars

(***************************************************************************)
(* Containers built by the sizing constructors and changed by resize and   *)
(* reserve only: the specification of the sizing and access contracts.     *)
(***************************************************************************)
NextShape ==
  \/ Construct
  \/ ConstructVal
  \/ ConstructContainer
  \/ Resize
  \/ ResizeVal
  \/ Reserve
  \/ ShrinkToFit
  \/ At
  \/ Discard

SpecShape == Init /\ [][NextShape]_vars

(***************************************************************************)
(* Comparison of the containers the value and sequence constructors build  *)
(* with the operands.  The comparisons change no container, so the         *)
(* lifecycle specification leaves them out.                                *)
(***************************************************************************)
NextCmp ==
  \/ ConstructVal
  \/ ConstructContainer
  \/ Equals
  \/ Compare
  \/ Discard

SpecCmp == Init /\ [][NextCmp]_vars

(***************************************************************************)
(* Exchange of the containers the value and sequence constructors build    *)
(* with another container.                                                 *)
(***************************************************************************)
NextSwap ==
  \/ ConstructVal
  \/ ConstructContainer
  \/ Swap
  \/ SwapFree
  \/ SwapTwice
  \/ SwapSelf
  \/ Discard

SpecSwap == Init /\ [][NextSwap]_vars

(***************************************************************************)
(* Moves out of the containers the value and sequence constructors build.  *)
(***************************************************************************)
NextMove ==
  \/ ConstructVal
  \/ ConstructContainer
  \/ MoveConstruct
  \/ MoveAssign
  \/ Discard

SpecMove == Init /\ [][NextMove]_vars

(***************************************************************************)
(* fill and fill_parallel on buffers around the threshold, the parallel    *)
(* fill one block of elements at a time in every order of the blocks.      *)
(***************************************************************************)
NextFill ==
  \/ ConstructLarge
  \/ Fill
  \/ FillParallelCall
  \/ FillParallelAssign
  \/ FillParallelReturn
  \/ Discard

SpecFill == Init /\ [][NextFill]_vars

(***************************************************************************)
(* Views of the containers the sequence constructor builds, writes         *)
(* through them, and column copies.                                        *)
(***************************************************************************)
NextView ==
  \/ ConstructContainer
  \/ Row
  \/ RowRange
  \/ RowWrite
  \/ RowRangeWrite
  \/ Col
  \/ ColModify
  \/ Submatrix
  \/ Discard

SpecView == Init /\ [][NextView]_vars

(***************************************************************************)
(* Iterators over the buffers of the containers the sequence constructor   *)
(* builds.                                                                 *)
(***************************************************************************)
NextIter ==
  \/ ConstructContainer
  \/ IterArith
  \/ IterIndex
  \/ IterPostInc
  \/ IterPostDec
  \/ IterCompare
  \/ Discard

SpecIter == Init /\ [][NextIter]_vars

(***************************************************************************)
(* Construction from nested lists.                                         *)
(***************************************************************************)
NextList ==
  \/ ConstructList
  \/ Discard

SpecList == Init /\ [][NextList]_vars

(***************************************************************************)
(* Transposition of containers up to MaxTDim x MaxTDim whose elements are  *)
(* pairwise different.                                                     *)
(***************************************************************************)
ConstructT ==
  /\ Running
  /\ \E r \in 0..MaxTDim, c \in 0..MaxTDim :
       BuiltFrom("array2d_container", r, c, r * c, Iota(r * c),
                 array2d_container(ty, r, c, Iota(r * c), "none"))

\* the block sizes 64 / sizeof(Ty) of the element types of 64 bytes
\* (block size 1) down to 64 / (MaxTDim + 1) bytes
BlockSizes == 1..(MaxTDim + 1)

\* transpose() of a square container of an element type whose size gives
\* the block size bs: the blocked loops
TransposeBlocks ==
  /\ Running
  /\ is_square(m)
  /\ \E bs \in BlockSizes :
       LET s == TransposeI([d |-> m.data, tr |-> <<>>, ub |-> FALSE], m, bs, 0)
       IN  Step(Op("transpose_blocks", bs, 0, 0,
                   IF s.ub THEN "undefined" ELSE "ok"),
                IF s.ub THEN m ELSE [m EXCEPT !.data = s.d],
                Ret(array2d_default, 0, 0, NoMsg, s.tr))

\* M.transposed().transposed()
TransposedTwice ==
  /\ Running
  /\ \E elide \in BOOLEAN :
       LET first  == transposed(ty, m, "none", elide)
           second == transposed(ty, first.res, "none", elide)
           st     == IF first.st # "ok" THEN first.st ELSE second.st
       IN  Step(Op("transposed_twice", 0, 0, 0, st), m,
                Ret(IF st = "ok" THEN second.res ELSE array2d_default,
                    0, 0, NoMsg, <<>>))

NextTr ==
  \/ ConstructT
  \/ Transpose
  \/ Transposed
  \/ TransposedTwice
  \/ TransposeBlocks
  \/ Discard

SpecTr == Init /\ [][NextTr]_vars

(***************************************************************************)
(* The element-wise in-place operations on containers up to MaxTDim x      *)
(* MaxTDim whose elements start pairwise different.                        *)
(***************************************************************************)
NextElems ==
  \/ ConstructT
  \/ Reset
  \/ CopyRow
  \/ SwapRows
  \/ FillRow
  \/ Discard

SpecElems == Init /\ [][NextElems]_vars

(***************************************************************************)
(* The size computation of construction, reserve and resize for each       *)
(* index type, on dimensions at the edges of the type.                     *)
(***************************************************************************)
ProbeDims(idx) ==
  IF idx = "short"
  THEN {0, 1, 2, 255, 256, 257, 2^14, IndexMax("short")}
  ELSE {0, 1, 2, 2^16 - 1, 2^16, 2^16 + 1, 2^30, IndexMax("int")}

InitSize ==
  /\ m = array2d_default
  /\ pre = array2d_default
  /\ op = NoOp
  /\ ret = NoRet
  /\ ty = "uint8"
  /\ arg = NoArg
  /\ par = NoPar
  /\ \E idx \in IndexTypes :
       \E r \in ProbeDims(idx), c \in ProbeDims(idx) :
         cs = [NoCalc EXCEPT !.idx = idx, !.rows = r, !.cols = c]

Sized(call, out) ==
  /\ cs.call = "none"
  /\ cs' = [cs EXCEPT !.call = call, !.throws = out.throws, !.count = out.size]
  /\ UNCHANGED <<m, pre, op, ret, ty, arg, par>>

SizeConstruct == Sized("array2d", array2d_elems(cs.idx, cs.rows, cs.cols))

SizeReserve == Sized("reserve", reserve_elems(cs.idx, cs.rows, cs.cols))

SizeResize == Sized("resize", resize_elems(cs.idx, cs.rows, cs.cols))

NextSize ==
  \/ SizeConstruct
  \/ SizeReserve
  \/ SizeResize

SpecSize == InitSize /\ [][NextSize]_vars

(***************************************************************************)
(* Properties.                                                             *)
(***************************************************************************)
Constructors == {"array2d", "array2d_val", "array2d_list", "array2d_container"}

InPlaceOps ==
  {"fill", "fill_parallel", "reset", "resize", "resize_val", "reserve",
   "shrink_to_fit", "transpose", "copy_row", "swap_rows", "fill_row", "swap",
   "copy_assign"}

ResizeOps == {"resize", "resize_val"}

\* the outcomes an injected allocation or element failure gives
FaultOutcomes == {"bad_alloc", "element_ctor_threw", "element_copy_threw"}

ShapeHolds(c) == size(c) = rows(c) * cols(c) /\ rows(c) >= 0 /\ cols(c) >= 0

SameObservable(a, b) ==
  rows(a) = rows(b) /\ cols(a) = cols(b) /\ size(a) = size(b) /\ a.data = b.data

\* C1: a constructor that succeeds yields size() == rows() * cols() with
\* rows() >= 0 and cols() >= 0, and every in-place operation of the list,
\* copy assignment included, called on a container that satisfies this
\* leaves one that satisfies it, whether the call succeeds or fails.
C1_ShapeInvariant ==
  /\ (op.name \in Constructors /\ op.st = "ok") => ShapeHolds(m)
  /\ (op.name \in InPlaceOps /\ ShapeHolds(pre)) => ShapeHolds(m)

\* C2: in every reachable state, for every 0 <= r < rows() and
\* 0 <= c < cols(), at(r, c), operator()(r, c), operator[](r)[c] and
\* data()[r * cols() + c] denote one element of the buffer, which is the
\* (r * cols() + c)-th that begin()..end() produces; forward iteration
\* visits the size() elements in row-major order and reverse iteration the
\* same elements in the opposite order.
C2_AddressingAgrees ==
  /\ \A r \in 0..(rows(m) - 1), c \in 0..(cols(m) - 1) :
       LET a == at_impl(m, r, c)
           k == r * cols(m) + c
       IN  /\ a.st = "ok"
           /\ a.off = k
           /\ operator_call(m, r, c) = k
           /\ operator_index(m, r) + c = k
           /\ k + 1 <= Len(ForwardOrder(m))
           /\ ForwardOrder(m)[k + 1] = k
  /\ Len(ForwardOrder(m)) = size(m)
  /\ \A k \in 1..Len(ForwardOrder(m)) : ForwardOrder(m)[k] = k - 1
  /\ Len(ReverseOrder(m)) = size(m)
  /\ \A k \in 1..Len(ReverseOrder(m)) :
       ReverseOrder(m)[k] = ForwardOrder(m)[size(m) - k + 1]

\* C3: a resize to a different shape (r2, c2) with r2 * c2 > 0 never has
\* undefined behaviour, and when it succeeds the container has the shape
\* (r2, c2), position (i, j) with i < min(rows, r2) and j < min(cols, c2)
\* holds the element that was at (i, j) under the old stride, and every
\* other position holds the fill value, or the default without one.
C3_ResizeKeepsOverlap ==
  op.name \in ResizeOps =>
    /\ op.st \notin Stopped
    /\ (op.st = "ok" /\ <<op.r, op.c>> # <<rows(pre), cols(pre)>> /\ op.r * op.c > 0) =>
         /\ rows(m) = op.r
         /\ cols(m) = op.c
         /\ size(m) = op.r * op.c
         /\ \A i \in 0..(op.r - 1), j \in 0..(op.c - 1) :
              m.data[i * op.c + j + 1] =
                IF i < Min(rows(pre), op.r) /\ j < Min(cols(pre), op.c)
                THEN pre.data[i * cols(pre) + j + 1]
                ELSE IF op.name = "resize_val" THEN op.v ELSE DefaultVal

C3_Witness ==
  /\ op.name = "resize_val"
  /\ op.st = "ok"
  /\ rows(pre) = 2 /\ cols(pre) = 1 /\ pre.data = <<1, 2>>
  /\ rows(m) = 2 /\ cols(m) = 2 /\ m.data = <<1, 99, 2, 99>>

\* C4: a resize that fails on the allocation, on the construction of an
\* element or on the copy of an element leaves rows(), cols(), size() and
\* every element as before the call; the shape or the contents differ from
\* before only after a successful call, and then shape and buffer are the
\* requested ones together.
C4_ResizeFailureAtomic ==
  op.name \in ResizeOps =>
    /\ op.st \in FaultOutcomes => SameObservable(m, pre)
    /\ ~SameObservable(m, pre) =>
         /\ op.st = "ok"
         /\ rows(m) = op.r
         /\ cols(m) = op.c
         /\ size(m) = op.r * op.c

C4_Witness ==
  /\ op.name = "resize"
  /\ op.st = "element_copy_threw"
  /\ size(pre) > 0
  /\ <<op.r, op.c>> # <<rows(pre), cols(pre)>>
  /\ SameObservable(m, pre)

\* the largest cols for which rows * cols fits the unsigned type of the
\* width of idx, for rows >= 2
MaxQuot(idx, r) ==
  IF idx = "short" THEN (Half - 1) \div r
  ELSE LET M == IndexMax("int")
       IN  2 * (M \div r) + (IF 2 * (M % r) + 1 >= r THEN 1 ELSE 0)

Representable(idx, r, c) == r <= 1 \/ c <= MaxQuot(idx, r)

PairAdd(p, q) ==
  <<(p[1] + q[1] + ((p[2] + q[2]) \div Half)) % Half, (p[2] + q[2]) % Half>>

\* r * c as a pair, by doubling along the binary digits of r
RECURSIVE Doubling(_, _)
Doubling(r, c) ==
  IF r = 0 THEN <<0, 0>>
  ELSE LET h == Doubling(r \div 2, c)
           d == PairAdd(h, h)
       IN  IF r % 2 = 1 THEN PairAdd(d, ToU32(c)) ELSE d

\* the product below 2^32 of r and c: the smaller factor is below 2^16
ExactProduct(r, c) == IF r <= c THEN Doubling(r, c) ELSE Doubling(c, r)

\* C5: for each index type and non-negative rows, cols of the type,
\* construction, reserve and resize throw std::overflow_error exactly when
\* rows * cols does not fit the unsigned type of the same width, and
\* otherwise use exactly rows * cols elements.
C5_OverflowExactlyWhenUnrepresentable ==
  cs.call # "none" =>
    /\ cs.throws <=> ~Representable(cs.idx, cs.rows, cs.cols)
    /\ ~cs.throws => cs.count = ExactProduct(cs.rows, cs.cols)

\* C6: the sizing constructors, reserve and resize called with a negative
\* rows or cols throw std::invalid_argument whatever the other argument
\* is, and reserve and resize then leave rows(), cols(), size(), capacity()
\* and every element unchanged.
C6_NegativeDimensionRejected ==
  (/\ op.name \in {"array2d", "array2d_val", "array2d_container",
                   "reserve", "resize", "resize_val"}
   /\ (op.r < 0 \/ op.c < 0)) =>
    /\ op.st = "invalid_argument"
    /\ op.name \in {"reserve", "resize", "resize_val"} =>
         SameObservable(m, pre) /\ capacity(m) = capacity(pre)

C6_Witness ==
  /\ op.name = "resize_val"
  /\ op.r > 0 /\ op.c < 0
  /\ op.st = "invalid_argument"
  /\ size(pre) > 0
  /\ m = pre

\* C7: at(r, c) throws std::out_of_range exactly when r < 0, r >= rows(),
\* c < 0 or c >= cols(); the message carries r, c, rows() and cols(); the
\* call leaves the container unchanged; and a call that does not throw
\* returns the element at offset r * cols() + c.
C7_AtBoundsChecked ==
  op.name = "at" =>
    /\ (op.st = "out_of_range") <=>
         (op.r < 0 \/ op.r >= rows(pre) \/ op.c < 0 \/ op.c >= cols(pre))
    /\ m = pre
    /\ op.st = "out_of_range" =>
         /\ Len(ret.msg) = 9
         /\ ret.msg[2] = ToString(op.r)
         /\ ret.msg[4] = ToString(op.c)
         /\ ret.msg[6] = ToString(rows(pre))
         /\ ret.msg[8] = ToString(cols(pre))
    /\ op.st # "out_of_range" =>
         /\ op.st = "ok"
         /\ ret.off = op.r * cols(pre) + op.c
         /\ ret.v = pre.data[ret.off + 1]

C7_Witness ==
  /\ op.name = "at"
  /\ op.st = "ok"
  /\ op.r = 1 /\ op.c = 1
  /\ rows(m) = 2 /\ cols(m) = 2
  /\ ret.off = 3
  /\ ret.v = m.data[4]

\* C8: for a container M of any shape and element type,
\* M.transposed().transposed() returns a container with M's rows(), cols()
\* and elements.
C8_TransposedTwiceIsIdentity ==
  op.name = "transposed_twice" =>
    /\ op.st = "ok"
    /\ rows(ret.c) = rows(m)
    /\ cols(ret.c) = cols(m)
    /\ ret.c.data = m.data

\* C9: for a square M of any element type, M.transpose() returns and
\* leaves M equal to the container M.transposed() returns for the M before
\* the call (in at least one of the ways the build may treat a loop that
\* makes no progress).
C9_TransposeMatchesTransposed ==
  (op.name = "transpose" /\ is_square(pre)) =>
    /\ op.st = "ok"
    /\ \E elide \in BOOLEAN :
         LET t == transposed(ty, pre, "none", elide)
         IN  /\ t.st = "ok"
             /\ rows(m) = rows(t.res)
             /\ cols(m) = cols(t.res)
             /\ m.data = t.res.data

\* C10: M.transposed() without an allocation or element failure returns a
\* cols x rows container T with T(j, i) = M(i, j) for every 0 <= i < rows
\* and 0 <= j < cols, the loops assign each element of T exactly once, and
\* M keeps its rows(), cols() and elements.
C10_TransposedMapsEveryElementOnce ==
  (op.name = "transposed" /\ op.st \notin FaultOutcomes) =>
    /\ op.st = "ok"
    /\ SameObservable(m, pre)
    /\ rows(ret.c) = cols(pre)
    /\ cols(ret.c) = rows(pre)
    /\ size(ret.c) = rows(pre) * cols(pre)
    /\ \A i \in 0..(rows(pre) - 1), j \in 0..(cols(pre) - 1) :
         /\ ret.c.data[j * rows(pre) + i + 1] = pre.data[i * cols(pre) + j + 1]
         /\ Cardinality({k \in 1..Len(ret.tr) : ret.tr[k] = <<i, j>>}) = 1
    /\ Len(ret.tr) = rows(pre) * cols(pre)

\* C11: transpose() on a container with rows() # cols() (a shape with one
\* zero dimension included) throws invalid_argument and leaves rows(),
\* cols() and every element as they were; on a square container (0 x 0 and
\* 1 x 1 included) it returns and keeps rows(), cols() and size().
C11_TransposeSquareOnly ==
  op.name = "transpose" =>
    IF rows(pre) # cols(pre)
    THEN op.st = "invalid_argument" /\ SameObservable(m, pre)
    ELSE /\ op.st = "ok"
         /\ rows(m) = rows(pre)
         /\ cols(m) = cols(pre)
         /\ size(m) = size(pre)

\* C12: construction from a nested list without an allocation or element
\* failure: an empty outer list gives a 0 x 0 container; a list whose inner
\* lists all have the length of the first gives rows() = outer length,
\* cols() = length of the first inner list and element (r, c) = item c of
\* inner list r; a list with an inner list of another length, at any
\* position, throws invalid_argument and builds no object.
C12_ListConstruction ==
  (op.name = "array2d_list" /\ op.st \notin FaultOutcomes) =>
    IF Len(arg) = 0
    THEN op.st = "ok" /\ rows(m) = 0 /\ cols(m) = 0 /\ size(m) = 0
    ELSE IF \E k \in 1..Len(arg) : Len(arg[k]) # Len(arg[1])
         THEN op.st = "invalid_argument" /\ m = pre
         ELSE /\ op.st = "ok"
              /\ rows(m) = Len(arg)
              /\ cols(m) = Len(arg[1])
              /\ size(m) = Len(arg) * Len(arg[1])
              /\ \A r \in 0..(rows(m) - 1), c \in 0..(cols(m) - 1) :
                   m.data[calculate_offset(m, r, c) + 1] = arg[r + 1][c + 1]

C12_Witness ==
  /\ op.name = "array2d_list"
  /\ op.st = "ok"
  /\ rows(m) = 2 /\ cols(m) = 2
  /\ m.data[calculate_offset(m, 1, 0) + 1] = arg[2][1]
  /\ arg[2][1] # arg[1][1]

\* n = r * c as integers, for n below 2^31 and 0 <= r, c
LengthIsProduct(n, r, c) ==
  Representable("int", r, c) /\ ToU32(n) = ExactProduct(r, c)

\* the object array2d(rows, cols, source) builds: the shape as given and
\* element (r, c) = source[r * cols + c]
BuiltFromSource ==
  /\ op.st = "ok"
  /\ rows(m) = op.r
  /\ cols(m) = op.c
  /\ size(m) = Len(arg)
  /\ \A r \in 0..(op.r - 1), c \in 0..(op.c - 1) :
       m.data[calculate_offset(m, r, c) + 1] = arg[r * op.c + c + 1]

\* C13 as stated: array2d(rows, cols, source) with rows, cols >= 0 and
\* without an allocation or element failure succeeds exactly when the
\* length of source is rows * cols, with element (r, c) = source[r * cols
\* + c], and throws invalid_argument for every other source length.
C13_ContainerLengthAsStated ==
  (op.name = "array2d_container" /\ op.r >= 0 /\ op.c >= 0
     /\ op.st \notin FaultOutcomes) =>
    IF LengthIsProduct(Len(arg), op.r, op.c) THEN BuiltFromSource
    ELSE op.st = "invalid_argument" /\ m = pre

\* C13: array2d(rows, cols, source) with rows, cols >= 0 whose product fits
\* size_type, without an allocation or element failure, succeeds exactly
\* when the length of source is rows * cols, with element (r, c) =
\* source[r * cols + c], and throws invalid_argument for every other
\* source length, a non-empty source with a zero dimension included; when
\* rows * cols does not fit size_type it throws overflow_error whatever
\* the length of source is.  A failed construction builds no object.
C13_ContainerLength ==
  (op.name = "array2d_container" /\ op.r >= 0 /\ op.c >= 0
     /\ op.st \notin FaultOutcomes) =>
    IF ~Representable("int", op.r, op.c)
    THEN op.st = "overflow_error" /\ m = pre
    ELSE IF LengthIsProduct(Len(arg), op.r, op.c) THEN BuiltFromSource
    ELSE op.st = "invalid_argument" /\ m = pre

C13_Witness ==
  /\ op.name = "array2d_container"
  /\ op.st = "ok"
  /\ op.r = 2 /\ op.c = 2
  /\ Len(arg) = 4
  /\ m.data[calculate_offset(m, 1, 0) + 1] = arg[3]

\* C14: array2d(rows, cols) and array2d(rows, cols, value) with a zero
\* dimension build a container with size() = 0 and empty() that reports
\* rows() and cols() as given, and in every reachable state empty() holds
\* exactly when rows() = 0 or cols() = 0.
C14_EmptyIffZeroDimension ==
  /\ (op.name \in {"array2d", "array2d_val"} /\ op.st = "ok"
        /\ (op.r = 0 \/ op.c = 0)) =>
       (size(m) = 0 /\ empty(m) /\ rows(m) = op.r /\ cols(m) = op.c)
  /\ empty(m) <=> (rows(m) = 0 \/ cols(m) = 0)

\* the value resize gives a new element: the fill value of resize(rows,
\* cols, value), Ty{} for resize(rows, cols)
NewElement == IF op.name = "resize_val" THEN op.v ELSE DefaultVal

\* C15: a resize that returns, to a shape with a zero dimension, leaves
\* size() = 0 and rows(), cols() as requested; a resize that returns, of a
\* container emptied this way (a zero dimension and no element) to a
\* positive shape, leaves exactly that shape with every element equal to
\* the fill value, or Ty{} without one: no earlier element value is there.
C15_NothingReappearsAfterEmptying ==
  (op.name \in ResizeOps /\ op.st = "ok") =>
    /\ (op.r = 0 \/ op.c = 0) =>
         (size(m) = 0 /\ rows(m) = op.r /\ cols(m) = op.c)
    /\ ((rows(pre) = 0 \/ cols(pre) = 0) /\ size(pre) = 0
          /\ op.r > 0 /\ op.c > 0) =>
         /\ rows(m) = op.r
         /\ cols(m) = op.c
         /\ size(m) = op.r * op.c
         /\ \A k \in 1..size(m) : m.data[k] = NewElement

\* a container that held elements, was emptied, and is resized to 2 x 2
C15_Witness ==
  /\ op.name = "resize"
  /\ op.st = "ok"
  /\ rows(pre) = 0 /\ cols(pre) = 0 /\ size(pre) = 0
  /\ capacity(pre) > 0
  /\ rows(m) = 2 /\ cols(m) = 2
  /\ \A k \in 1..4 : m.data[k] = DefaultVal

\* the first position where two sequences of one length differ
FirstDifference(a, b) ==
  CHOOSE k \in 1..Len(a) : a[k] # b[k] /\ \A j \in 1..(k - 1) : a[j] = b[j]

\* C16: a == b holds exactly when rows and cols match and the elements are
\* pairwise equal; a <=> b is decided by rows, then by cols (a container
\* with fewer rows, or as many rows and fewer cols, is less whatever the
\* elements are), then by the first differing element in row-major order;
\* and a <=> b is `equal` exactly when a == b.
C16_ComparisonLexicographic ==
  LET a == m
      b == ret.c
  IN  /\ op.name = "operator_eq" =>
           (ret.v = 1 <=>
              /\ rows(a) = rows(b)
              /\ cols(a) = cols(b)
              /\ \A r \in 0..(rows(a) - 1), c \in 0..(cols(a) - 1) :
                   a.data[calculate_offset(a, r, c) + 1]
                     = b.data[calculate_offset(b, r, c) + 1])
      /\ op.name = "operator_cmp" =>
           /\ rows(a) < rows(b) => ret.v = 0 - 1
           /\ rows(a) > rows(b) => ret.v = 1
           /\ (rows(a) = rows(b) /\ cols(a) < cols(b)) => ret.v = 0 - 1
           /\ (rows(a) = rows(b) /\ cols(a) > cols(b)) => ret.v = 1
           /\ (rows(a) = rows(b) /\ cols(a) = cols(b)) =>
                IF a.data = b.data THEN ret.v = 0
                ELSE LET k == FirstDifference(a.data, b.data)
                     IN  ret.v = (IF a.data[k] < b.data[k] THEN 0 - 1 ELSE 1)
           /\ ret.v = 0 <=> operator_eq(a, b)

\* fewer rows and larger elements: less
C16_Witness ==
  /\ op.name = "operator_cmp"
  /\ rows(m) = 1 /\ cols(m) = 2
  /\ rows(ret.c) = 2 /\ cols(ret.c) = 1
  /\ m.data[1] > ret.c.data[1]
  /\ ret.v = 0 - 1

\* the container c has the rows(), cols() and elements the other operand
\* had before the call
HasOperand(c) == rows(c) = op.r /\ cols(c) = op.c /\ c.data = arg

\* C17: a.swap(b) and swap(a, b) leave a with the rows(), cols() and
\* elements b had and b with those a had; swapping twice leaves both as
\* they were; a.swap(a) leaves a as it was.
C17_SwapExchanges ==
  /\ op.name \in {"swap", "swap_free"} =>
       (HasOperand(m) /\ SameObservable(ret.c, pre))
  /\ op.name = "swap_twice" => (SameObservable(m, pre) /\ HasOperand(ret.c))
  /\ op.name = "swap_self" => SameObservable(m, pre)

C17_Witness ==
  /\ op.name = "swap_free"
  /\ rows(pre) = 2 /\ cols(pre) = 2
  /\ pre.data = Iota(4)
  /\ rows(m) = 1 /\ cols(m) = 2
  /\ m.data = <<99, 99>>
  /\ ret.c.data = Iota(4)

\* C18: after move construction and after move assignment the destination
\* has the rows(), cols() and elements the source had, and the moved-from
\* source satisfies size() = rows() * cols() with rows() >= 0 and
\* cols() >= 0.
C18_MovedFromValid ==
  op.name \in {"move_construct", "move_assign"} =>
    (SameObservable(ret.c, pre) /\ ShapeHolds(m))

\* C19: reserve(r, c) and shrink_to_fit() leave rows(), cols(), size() and
\* every element as they were, whether they return or throw; after a
\* reserve(r, c) that returns capacity() >= r * c; shrink_to_fit() does not
\* increase capacity(); and capacity() >= size() in every reachable state.
C19_CapacityOnly ==
  /\ op.name \in {"reserve", "shrink_to_fit"} => SameObservable(m, pre)
  /\ (op.name = "reserve" /\ op.st = "ok") => capacity(m) >= op.r * op.c
  /\ op.name = "shrink_to_fit" => capacity(m) <= capacity(pre)
  /\ capacity(m) >= size(m)

\* a reserve that had to grow the buffer of a container with elements
C19_Witness ==
  /\ op.name = "reserve"
  /\ op.st = "ok"
  /\ op.r = 2 /\ op.c = 2
  /\ size(m) = 2
  /\ capacity(pre) = 2
  /\ capacity(m) = 4
  /\ m.data = pre.data

\* C20: fill_parallel(v) that returns leaves the container fill(v) leaves:
\* rows(), cols() and size() as before and every element equal to v, for
\* every buffer size and, on the parallel path, every order in which the
\* blocks of elements are assigned, each element being assigned exactly
\* once there; the parallel path is taken only with size() above the
\* threshold, a buffer of exactly the threshold being filled by fill(v).
C20_FillParallelMatchesFill ==
  (op.name = "fill_parallel" /\ op.st = "ok") =>
    /\ m = fill(ty, pre, op.v, "none").c
    /\ rows(m) = rows(pre) /\ cols(m) = cols(pre) /\ size(m) = size(pre)
    /\ \A k \in 1..size(m) : m.data[k] = op.v
    /\ op.r = 1 <=> size(pre) > ParallelThreshold
    /\ op.r = 1 => \A k \in 1..size(m) : par.hits[k] = 1
    /\ size(pre) = ParallelThreshold => (op.r = 0 /\ par = NoPar)

\* a parallel fill of ParallelThreshold + 1 elements has returned
C20_Witness ==
  /\ op.name = "fill_parallel"
  /\ op.st = "ok"
  /\ op.r = 1
  /\ size(pre) = ParallelThreshold + 1
  /\ pre.data[1] # op.v
  /\ m.data[size(m)] = op.v

\* the shape is the one before the call
SameShape == rows(m) = rows(pre) /\ cols(m) = cols(pre) /\ size(m) = size(pre)

\* C21: reset(opt) leaves rows(), cols() and size() as they were and does
\* nothing on an empty container; for a trivially constructible element
\* type of one byte every element reads 0 after reset(), 255 after
\* reset(All_bits1) and 63 after reset(Safe_max); for the other element
\* types every element is Ty{} after every mode.
C21_ResetModes ==
  op.name = "reset" =>
    /\ SameShape
    /\ size(pre) = 0 => m = pre
    /\ \A k \in 1..size(m) :
         m.data[k] = IF ty = "uint8"
                     THEN (CASE op.r = 0 -> 0
                             [] op.r = 0 - 1 -> 255
                             [] op.r = 63 -> 63)
                     ELSE DefaultVal

\* reset(All_bits1) on 1-byte elements that were not 255
C21_Witness ==
  /\ op.name = "reset"
  /\ op.r = 0 - 1
  /\ ty = "uint8"
  /\ size(m) = 4
  /\ pre.data[1] # 255
  /\ m.data[1] = 255

\* element (r, c) of a container, by the unchecked two-index access
Elem(x, r, c) == x.data[calculate_offset(x, r, c) + 1]

\* every row other than those of rs is as before the call
OtherRowsKept(rs) ==
  \A r \in (0..(rows(pre) - 1)) \ rs, c \in 0..(cols(pre) - 1) :
    Elem(m, r, c) = Elem(pre, r, c)

\* C22: copy_row(src, dst) with valid rows and no element failure returns
\* with row dst equal to the row src of before in each of its cols()
\* elements, with row src, every other row and the shape as before, with
\* nothing changed when src = dst; a second copy_row(src, dst) changes
\* nothing more.
C22_CopyRow ==
  (op.name = "copy_row" /\ op.st \notin FaultOutcomes) =>
    /\ op.st = "ok"
    /\ SameShape
    /\ \A c \in 0..(cols(pre) - 1) : Elem(m, op.c, c) = Elem(pre, op.r, c)
    /\ OtherRowsKept({op.c})
    /\ op.r = op.c => m = pre
    /\ copy_row(ty, m, op.r, op.c, "none").c = m

C22_Witness ==
  /\ op.name = "copy_row"
  /\ op.st = "ok"
  /\ op.r = 2 /\ op.c = 0
  /\ rows(m) = 3 /\ cols(m) = 2
  /\ Elem(pre, 0, 1) # Elem(pre, 2, 1)
  /\ Elem(m, 0, 1) = Elem(pre, 2, 1)

\* C23: swap_rows(a, b) with valid rows returns with rows a and b
\* exchanged element by element and every other row and the shape as
\* before, with nothing changed when a = b; swap_rows(b, a) has the same
\* effect, and a second swap_rows(a, b) restores the contents.
C23_SwapRows ==
  op.name = "swap_rows" =>
    /\ op.st = "ok"
    /\ SameShape
    /\ \A c \in 0..(cols(pre) - 1) :
         /\ Elem(m, op.r, c) = Elem(pre, op.c, c)
         /\ Elem(m, op.c, c) = Elem(pre, op.r, c)
    /\ OtherRowsKept({op.r, op.c})
    /\ op.r = op.c => m = pre
    /\ swap_rows(pre, op.c, op.r).c = m
    /\ swap_rows(m, op.r, op.c).c = pre

C23_Witness ==
  /\ op.name = "swap_rows"
  /\ op.st = "ok"
  /\ op.r = 0 /\ op.c = 2
  /\ rows(m) = 3 /\ cols(m) = 3
  /\ Elem(pre, 0, 2) # Elem(pre, 2, 2)
  /\ Elem(m, 0, 2) = Elem(pre, 2, 2)
  /\ Elem(m, 2, 2) = Elem(pre, 0, 2)

\* C24: for a valid row r, row(r) and row_range(r) cover the cols()
\* elements at offsets r * cols() .. r * cols() + cols() - 1; a write
\* through either is read back by at() and by the two-index access and
\* changes no other element; for a valid column c, col(c) without an
\* allocation or element failure returns the rows() elements at offsets
\* c, c + cols(), c + 2 * cols(), ... in row order, and modifying the
\* returned vector leaves the container as it was.
C24_RowViewsAndColumnCopy ==
  /\ op.name \in {"row", "row_range"} =>
       /\ ret.off = op.r * cols(m)
       /\ ret.v = cols(m)
       /\ ret.off + ret.v <= size(m)
       /\ m = pre
  /\ op.name \in {"row_write", "row_range_write"} =>
       /\ op.st = "ok"
       /\ SameShape
       /\ at_impl(m, op.r, op.c).v = op.v
       /\ Elem(m, op.r, op.c) = op.v
       /\ \A k \in 1..size(m) :
            k # op.r * cols(m) + op.c + 1 => m.data[k] = pre.data[k]
  /\ (op.name = "col" /\ op.st \notin FaultOutcomes) =>
       /\ op.st = "ok"
       /\ Len(ret.tr) = rows(m)
       /\ \A i \in 0..(rows(m) - 1) : ret.tr[i + 1] = m.data[op.c + i * cols(m) + 1]
       /\ m = pre
  /\ op.name = "col_modify" =>
       /\ op.st = "ok"
       /\ ret.tr[op.r + 1] = op.v
       /\ m = pre

\* column 1 of a 2 x 2 container with different elements
C24_Witness ==
  /\ op.name = "col"
  /\ op.st = "ok"
  /\ op.c = 1
  /\ rows(m) = 2 /\ cols(m) = 2
  /\ m.data = Iota(4)
  /\ ret.tr = <<2, 4>>

\* C25: submatrix_row_major(sr, sc, nr, nc) with a block that passes the
\* bounds assertions returns, when sc = 0 and nc = cols(), the nr * cols()
\* elements from offset sr * cols() on, and otherwise the nc elements from
\* offset sr * cols() + sc on, whatever nr is; the view lies inside
\* [0, size()).
C25_SubmatrixRowMajor ==
  op.name = "submatrix_row_major" =>
    LET sr == op.r
        sc == op.c
        nr == arg[1]
        nc == arg[2]
    IN  /\ IF sc = 0 /\ nc = cols(m)
           THEN ret.off = sr * cols(m) /\ ret.v = nr * cols(m)
           ELSE ret.off = sr * cols(m) + sc /\ ret.v = nc
        /\ ret.off >= 0
        /\ ret.off + ret.v <= size(m)
        /\ m = pre

\* a block of two rows and one column: the view is one element
C25_Witness ==
  /\ op.name = "submatrix_row_major"
  /\ rows(m) = 2 /\ cols(m) = 2
  /\ op.r = 0 /\ op.c = 1
  /\ arg = <<2, 1>>
  /\ ret.off = 1 /\ ret.v = 1

\* C26: for iterators a, b over one buffer and an offset n with a + n over
\* it: (a + n) - n = a, (a + n) - a = n, n + a = a + n, a[n] is the element
\* at a + n, a++ and a-- return the position a had and move a by one,
\* a < b exactly when b - a > 0, exactly one of a < b, a = b, a > b holds,
\* and ordering, distance and equality are the same with b converted to a
\* read-only iterator.
C26_IteratorLaws ==
  /\ op.name = "iter_arith" =>
       /\ ret.tr[1] = op.r
       /\ ret.tr[2] = op.c
       /\ ret.tr[3] = ret.tr[4]
       /\ ret.tr[4] = op.r + op.c
  /\ op.name = "iter_index" =>
       (ret.v = ret.off /\ ret.v = m.data[op.r + op.c + 1])
  /\ op.name = "iter_post_inc" => (ret.tr[1] = op.r /\ ret.tr[2] = op.r + 1)
  /\ op.name = "iter_post_dec" => (ret.tr[1] = op.r /\ ret.tr[2] = op.r - 1)
  /\ op.name = "iter_compare" =>
       /\ ret.tr[1] = 0 - 1 <=> ret.tr[2] > 0
       /\ Cardinality({x \in {"lt", "eq", "gt"} :
                         \/ x = "lt" /\ ret.tr[1] = 0 - 1
                         \/ x = "eq" /\ ret.tr[3] = 1
                         \/ x = "gt" /\ ret.tr[1] = 1}) = 1
       /\ ret.tr[3] = 1 <=> op.r = op.c
       /\ ret.tr[4] = ret.tr[1]
       /\ ret.tr[5] = ret.tr[2]
       /\ ret.tr[6] = ret.tr[3]

\* begin()++ over four elements
C26_Witness ==
  /\ op.name = "iter_post_inc"
  /\ size(m) = 4
  /\ op.r = 0
  /\ ret.tr = <<0, 1>>

\* how often the innermost statement of the loops ran for the pair (i, j)
Visits(i, j) == Cardinality({k \in 1..Len(ret.tr) : ret.tr[k] = <<i, j>>})

\* C27: for an n x n container and a block size b >= 1 the blocked loops
\* of transpose() return having swapped each pair {(i, j), (j, i)}, i # j,
\* exactly once, no diagonal element, and no element of a row or column
\* outside [0, n); also for n not a multiple of b and for b > n.
C27_BlockedLoopsSwapEachPairOnce ==
  (/\ op.name \in {"transpose", "transpose_blocks"}
   /\ is_square(pre)
   /\ op.name = "transpose" => block_size(ty) >= 1) =>
    LET n == rows(pre)
    IN  /\ op.st = "ok"
        /\ \A i \in 0..(n - 1), j \in 0..(n - 1) :
             /\ i < j => Visits(i, j) + Visits(j, i) = 1
             /\ i = j => Visits(i, j) = 0
        /\ \A k \in 1..Len(ret.tr) :
             /\ ret.tr[k][1] \in 0..(n - 1)
             /\ ret.tr[k][2] \in 0..(n - 1)
        /\ \A i \in 0..(n - 1), j \in 0..(n - 1) : Elem(m, i, j) = Elem(pre, j, i)

\* three rows in blocks of two: n is not a multiple of b
C27_Witness ==
  /\ op.name = "transpose_blocks"
  /\ op.st = "ok"
  /\ op.r = 2
  /\ rows(pre) = 3 /\ cols(pre) = 3
  /\ Len(ret.tr) = 3
  /\ Elem(m, 0, 2) = Elem(pre, 2, 0)
  /\ Elem(m, 0, 2) # Elem(pre, 0, 2)

\* C28: transpose() on a square container and transposed() on any
\* container terminate for every shape and every element size, element
\* types of more than 64 bytes included: no such call fails to return.
C28_TranspositionTerminates ==
  (\/ op.name = "transpose" /\ is_square(pre)
   \/ op.name = "transposed") => op.st # "no_return"

\* C29: in every reachable state, a moved-from container included, an
\* at(r, c) call that passes its bounds check reads a buffer offset in
\* [0, size()), and the overlap copy of resize reads no offset outside
\* [0, size()) of the current buffer.
C29_AccessesStayInBuffer ==
  /\ (op.name = "at" /\ op.st # "out_of_range") =>
       /\ op.st = "ok"
       /\ ret.off \in 0..(size(pre) - 1)
  /\ op.name \in ResizeOps => op.st # "undefined"

\* C30: resize(r, c) and resize(r, c, v) with r == rows() and
\* c == cols() return having changed nothing: rows(), cols(), size(),
\* capacity() and every element are as before, none replaced by v or by
\* the default value.
C30_ResizeToSameShapeChangesNothing ==
  (/\ op.name \in ResizeOps
   /\ op.r = rows(pre)
   /\ op.c = cols(pre)) =>
    /\ op.st = "ok"
    /\ rows(m) = rows(pre) /\ cols(m) = cols(pre) /\ size(m) = size(pre)
    /\ m.data = pre.data
    /\ m = pre

\* a resize to the present shape with a value none of the elements has
C30_Witness ==
  /\ op.name = "resize_val"
  /\ op.st = "ok"
  /\ op.r = rows(pre) /\ op.c = cols(pre)
  /\ size(pre) > 1
  /\ \A i \in DOMAIN pre.data : pre.data[i] # op.v /\ pre.data[i] # DefaultVal
  /\ m.data = pre.data

====
